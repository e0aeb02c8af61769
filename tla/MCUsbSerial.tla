----------------------------- MODULE MCUsbSerial -----------------------------
(* Instances of UsbSerial for TLC. *)
EXTENDS UsbSerial, TLC

CONSTANTS d1, d2, m1

\* Both devices are of one model, so they share a name when named by it.
OneModel == [d \in Devs |-> m1]

DevSymmetry == Permutations(Devs)

\* The properties of these runs hold trivially once calm is lost.
Calm == calm
=============================================================================
