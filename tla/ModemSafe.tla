----------------------------- MODULE ModemSafe -----------------------------
(* What the modem's two threads and its maintenance must keep between them. *)
EXTENDS Modem

FlagType == dialed \in BOOLEAN /\ power \in BOOLEAN

PlaceType ==
  /\ {cnt, tmo, idle, read} \subseteq 0 .. MOD - 1 /\ tmo <= MaxOff
  /\ ste \in States /\ mode \in {"data", "cmd"}
  /\ pc \in States \cup {"sleep", "count", "hang", "off", "dialled", "giveup", "sms", "read"}
  /\ ppp \in {"dead", "opening", "up"} /\ cb \in {"none", "up", "timer", "down"}
  /\ heard \in {"no", "got", "online"} /\ quiet \in 0 .. MOD

TypeOK == FlagType /\ PlaceType

-----------------------------------------------------------------------------
(* No PPP session outlives a power cycle: while the modem is off, starting  *)
(* or being initialised PPP is dead, so the dial finds it free to open and  *)
(* it reads none of the answers to the commands (modem_Run's RESET case).   *)
HungUp ==
  pc = "sleep" /\ ste \in {"POWEROFF", "POWERON", "INIT"} => ppp = "dead"

(* Commands are sent only to a modem that was given power since it was last *)
(* switched off: no start may skip the second that does it, whatever stores *)
(* of cnt the other threads make meanwhile (the MODEM_S_POWERON case).      *)
Powered == ste = "INIT" => power

(* modem_Run decides to give an idle link up only after more than idle      *)
(* seconds in which it neither came up nor was heard of: neither the count  *)
(* of the dialling nor an older silence is held against it.  This is so of  *)
(* what is heard while modem_Run sleeps or is at its messages.  A timer set *)
(* while it counts is undone by its own store, and one set while it decides *)
(* does not stop it: a link that was just heard of is given up then         *)
(* (modem_linkStatusCB, modem_Refresh and the MODEM_S_ONLINE case).         *)
Patient == [][pc = "ONLINE" /\ pc' = "giveup" => quiet > idle]_vars

(* A modem that is configured to stay online gets there again and again,    *)
(* whatever failed before: every state in which nothing more would happen   *)
(* by itself is left by a count (modem_Run).                                *)
ComesBack == []<>(ste = "ONLINE" /\ ppp = "up")

(* What only looks online does not stay so: when PPP is dead, or the modem  *)
(* was left taking commands by a failed reading of the messages, the idle   *)
(* timer ends it (modem_Run, MODEM_S_ONLINE).                               *)
Usable == ppp = "up" /\ mode = "data"
Watched == ste = "ONLINE" /\ ~ Usable ~> ste # "ONLINE" \/ Usable
=============================================================================
