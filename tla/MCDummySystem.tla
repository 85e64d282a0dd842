--------------------------- MODULE MCDummySystem ---------------------------
(***************************************************************************)
(* Instances of DummySystem for TLC.                                       *)
(***************************************************************************)
EXTENDS DummySystem

(* One file of three chunks when MEM_SIZE is 2. *)
OneFile == << <<1, 2, 3, 4, 5>> >>

ShortFile == << <<1, 2, 3>> >>

NoFiles == << >>

NoData == << >>

WriteData == << <<1, 2, 3>>, <<4, 5>> , <<6, 7, 8>> >>

TwoWrites == << <<4, 5>>, <<6>> >>

=============================================================================
