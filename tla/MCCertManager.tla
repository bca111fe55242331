--------------------------- MODULE MCCertManager ---------------------------
(***************************************************************************)
(* Small instances of CertManager for TLC.  Version 2 renews version 1     *)
(* with the same key, version 3 has a new key, the others are broken.      *)
(***************************************************************************)
EXTENDS CertManager

MCVersions == 1..6

MCKeyOf == <<1, 1, 2, 1, 2, 1>>

MCBadCrt == {6}

MCBadKey == {4}

MCBadCA == {5}

(***************************************************************************)
(* manager.go: "Watch blocks until ctx is done, reloading certificates on  *)
(* every file change."                                                     *)
(***************************************************************************)
EveryChangeReloaded ==
  Quiet /\ kubelet = "idle" /\ Usable(disk) => current = Whole(disk)
=============================================================================
