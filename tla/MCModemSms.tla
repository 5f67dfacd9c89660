----------------------------- MODULE MCModemSms -----------------------------
(***************************************************************************)
(* Small instances of ModemSms for TLC: the SMS are alike.                 *)
(***************************************************************************)
EXTENDS ModemSms

MCSymmetry == Permutations(Sms)
=============================================================================
