----------------------------- MODULE MCFileRelay -----------------------------
(* One source and one target for TLC. *)
EXTENDS FileRelay

CONSTANTS src, dst

OneTarget == {dst}
SourceOnly == {src}
Everybody == {src, dst}
=============================================================================
