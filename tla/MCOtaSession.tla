---------------------------- MODULE MCOtaSession ----------------------------
\* Two packages, the second longer and with a CRC, and two connections.
EXTENDS OtaSession, TLC

CONSTANTS c1, c2, pkg1, pkg2

MCConn == {c1, c2}
MCPkg == {pkg1, pkg2}
MCChecked == {pkg2}
MCLength == pkg1 :> 2 @@ pkg2 :> 3
=============================================================================
