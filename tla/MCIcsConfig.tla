---------------------------- MODULE MCIcsConfig ------------------------------
(* Two administrators, one on a little-endian and one on a big-endian host. *)
EXTENDS IcsConfig, TLC

CONSTANTS alice, bob, rack, bench

MCAdmin == {alice, bob}
MCBigEndian == {bob}
MCIp == {<<10, 0, 0, 1>>, <<1, 0, 0, 10>>}
MCName == {rack, bench}
=============================================================================
