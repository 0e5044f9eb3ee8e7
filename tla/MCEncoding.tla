------------------------------ MODULE MCEncoding ------------------------------
(* The instance of Encoding that TLC checks. *)
EXTENDS Encoding

(* Small and negative, of four bytes, and four times the SIB byte of rsp. *)
MC_Numbers == {-8, 606348324, 1000000007}
=============================================================================
