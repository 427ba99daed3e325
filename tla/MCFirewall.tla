----------------------------- MODULE MCFirewall -----------------------------
EXTENDS Firewall

CONSTANTS i1, i2, h

\* Two IPs, one in both CIDR blocks and one in only the wider one, plus a
\* hostname that does not resolve.
MCIPs == {i1, i2}
MCUnresolved == {h}
MCCidrs == {{i1}, {i1, i2}}
\* One range 10..=100 as in the spec's example, probed at both of its ends
\* and just past the upper one.
MCRanges == {<<10, 100>>}
MCPorts == {10, 100, 101}
MCMaxRules == 2
=============================================================================
