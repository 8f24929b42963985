------------------------------- MODULE MCStack -------------------------------
(***************************************************************************)
(* Teams of one and of two threads.  64 bytes give a single thread four    *)
(* elements and each of two threads two.  The code of the first thread     *)
(* pushes with ad_push, never deeper than two; that of the second with     *)
(* ad_spush and may run into the limit.                                    *)
(***************************************************************************)
EXTENDS CStack

MCElement == {1, 2}
MCChecked == {2}
===============================================================================
