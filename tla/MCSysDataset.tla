---------------------------- MODULE MCSysDataset ----------------------------
(* Constants of SysDataset for TLC: two data pools, one of them without   *)
(* room for the system dataset.                                            *)
EXTENDS SysDataset

CONSTANTS p1, p2

MCDataPools == {p1, p2}
MCRoomy == {Boot, p1}
MCLocked == {}

(* Both data pools have room: a failed migrate can leave nothing mounted *)
(* and a later one can move the dataset on to the other data pool.      *)
MCRoomyAll == {Boot, p1, p2}
=============================================================================
