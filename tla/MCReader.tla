------------------------------ MODULE MCReader ------------------------------
(* Instances of ReaderEngine. *)
EXTENDS ReaderEngine

TwoSlots == {"a", "b"}
=============================================================================
