---------------------------- MODULE Modem_proofs ----------------------------
(* Proofs about Modem for every setting of its times: the counters stay in  *)
(* their width, no PPP session outlives a power cycle, no command goes to a *)
(* modem without power, and a link is not given up before its time.         *)
EXTENDS ModemSafe, Integers, TLAPS

(* PPP and the commands take turns: a session that lives was dialled, but   *)
(* while messages are read; where the modem is off, starts or is commanded  *)
(* there is none, but that the hang-up is still to come or the dial is past.*)
SessionInv ==
  /\ ppp # "dead" /\ pc # "read" => dialed
  /\ pc \in {"off", "POWEROFF", "POWERON", "INIT"} => ppp = "dead"
  /\ ste \in {"POWEROFF", "POWERON", "INIT"} /\ pc \notin {"hang", "dialled"} => ppp = "dead"

(* A start that has counted to PowerAt has given power, or is about to; the *)
(* counter may be lost to another thread meanwhile.                         *)
PowerInv ==
  /\ ste = "POWERON" /\ pc # "POWERON" /\ cnt >= PowerAt => power
  /\ ste = "POWERON" /\ pc = "count" /\ read >= PowerAt => power
  /\ pc = "POWERON" => cnt \in {0, now} /\ (read >= PowerAt => power)
  /\ ste = "INIT" => power

(* No counter runs ahead of the silence it stands for.                      *)
SilenceInv ==
  /\ cnt <= quiet
  /\ pc \in {"count", "ONLINE"} => now <= quiet

Inv == TypeOK /\ SessionInv /\ PowerInv /\ SilenceInv

-----------------------------------------------------------------------------
LEMMA Times ==
  /\ MOD \in Nat \ {0} /\ PowerAt \in Nat \ {0} /\ BootTime \in Nat
  /\ DialTime \in Nat /\ SmsAt \in Nat /\ MaxOff \in Nat
  /\ PowerAt <= BootTime /\ MaxOff + 2 < MOD
  /\ Spans \subseteq Nat
  BY ModemAssumption DEF ModemAssumption

LEMMA Modulo ==
  ASSUME NEW n \in Nat
  PROVE  n % MOD \in 0 .. MOD - 1
  BY Times

(* Counting on goes one further, or starts again at 0.                      *)
LEMMA CountOn ==
  ASSUME NEW n \in 0 .. MOD - 1
  PROVE  (n + 1) % MOD \in {0, n + 1}
<1>1. CASE n + 1 < MOD
  BY <1>1, Times
<1>2. CASE n + 1 = MOD
  BY <1>2, Times
<1> QED
  BY <1>1, <1>2, Times

LEMMA NowType ==
  ASSUME TypeOK
  PROVE  now \in 0 .. MOD - 1 /\ now \in {0, read + 1}
<1>1. read \in 0 .. MOD - 1
  BY DEF TypeOK, PlaceType
<1> QED
  BY <1>1, CountOn, Modulo, Times DEF now

LEMMA InvInit == Init => Inv
<1> SUFFICES ASSUME Init PROVE Inv
  OBVIOUS
<1>1. PlaceType
  BY Times DEF Init, PlaceType, States
<1>3. FlagType
  BY Zenon DEF Init, FlagType
<1>2. SessionInv /\ PowerInv /\ SilenceInv
  BY Times DEF Init, SessionInv, PowerInv, SilenceInv
<1> QED
  BY <1>1, <1>2, <1>3 DEF Inv, TypeOK

-----------------------------------------------------------------------------
LEMMA FlagStep ==
  ASSUME FlagType, [Next]_vars
  PROVE  FlagType'
<1> USE DEF FlagType, hw, link
<1>1. CASE Load \/ Count
  BY <1>1 DEF Load, Count
<1>2. CASE RunReset
  BY <1>2 DEF RunReset
<1>3. CASE HangUp \/ GiveUp
  BY <1>3, Zenon DEF HangUp, GiveUp
<1>4. CASE SwitchedOff
  BY <1>4, Zenon DEF SwitchedOff
<1>5. CASE RunPowerOff \/ RunWaitDial \/ RunOnline
  BY <1>5 DEF RunPowerOff, RunWaitDial, RunOnline
<1>6. CASE RunPowerOn
  BY <1>6, Zenon DEF RunPowerOn
<1>7. CASE InitFails \/ InitDials \/ Dialled
  BY <1>7, Zenon DEF InitFails, InitDials, Dialled
<1>8. CASE SmsNotDue \/ SmsBegins \/ SmsEnds
  BY <1>8, Zenon DEF SmsNotDue, SmsBegins, SmsEnds
<1>9. CASE CallBack
  BY <1>9 DEF CallBack, CbDown, CbOnline, CbTimer
<1>10. CASE ComesUp \/ GoesDown \/ Receive \/ RefreshTest \/ Refresh
  BY <1>10 DEF ComesUp, GoesDown, Receive, RefreshTest, Refresh
<1>11. CASE \E s \in Spans : Config(s)
  BY <1>11 DEF Config
<1>12. CASE UNCHANGED vars
  BY <1>12 DEF vars
<1> QED
  BY <1>1, <1>2, <1>3, <1>4, <1>5, <1>6, <1>7, <1>8, <1>9, <1>10, <1>11, <1>12 DEF Next, Maintain

LEMMA PlaceStep ==
  ASSUME TypeOK, [Next]_vars
  PROVE  PlaceType'
<1> USE DEF TypeOK, PlaceType, States, hw, link
<1> USE Times, NowType
<1>1. CASE Load \/ Count
  BY <1>1 DEF Load, Count
<1>2. CASE RunReset
  BY <1>2 DEF RunReset
<1>3. CASE HangUp \/ GiveUp
  BY <1>3 DEF HangUp, GiveUp
<1>4. CASE SwitchedOff
  BY <1>4 DEF SwitchedOff
<1>5. CASE RunPowerOff \/ RunPowerOn
  BY <1>5 DEF RunPowerOff, RunPowerOn
<1>6. CASE InitFails
  BY <1>6 DEF InitFails
<1>14. CASE InitDials
  BY <1>14 DEF InitDials
<1>15. CASE Dialled
  BY <1>15 DEF Dialled
<1>7. CASE RunWaitDial \/ RunOnline
  BY <1>7 DEF RunWaitDial, RunOnline
<1>8. CASE SmsNotDue \/ SmsBegins \/ SmsEnds
  BY <1>8 DEF SmsNotDue, SmsBegins, SmsEnds
<1>9. CASE CallBack
  BY <1>9 DEF CallBack, CbDown, CbOnline, CbTimer, Landed
<1>10. CASE ComesUp \/ GoesDown \/ Receive
  BY <1>10 DEF ComesUp, GoesDown, Receive
<1>11. CASE RefreshTest \/ Refresh
  BY <1>11 DEF RefreshTest, Refresh, Landed
<1>12. CASE \E s \in Spans : Config(s)
  <2>1. PICK s \in Spans : Config(s)
    BY <1>12
  <2>0. 3 * s \in Nat
    BY Times
  <2>2. (3 * s) % MOD \in 0 .. MOD - 1
    BY <2>0, Modulo
  <2> QED
    BY <2>1, <2>2 DEF Config
<1>13. CASE UNCHANGED vars
  BY <1>13 DEF vars
<1> QED
  BY <1>1, <1>2, <1>3, <1>4, <1>5, <1>6, <1>7, <1>8, <1>9, <1>10, <1>11, <1>12, <1>13, <1>14, <1>15 DEF Next, Maintain

LEMMA TypeStep ==
  ASSUME TypeOK, [Next]_vars
  PROVE  TypeOK'
  BY FlagStep, PlaceStep DEF TypeOK

LEMMA SessionStep ==
  ASSUME TypeOK, SessionInv, [Next]_vars
  PROVE  SessionInv'
<1> USE DEF SessionInv, hw, link
<1>1. CASE Load \/ Count
  BY <1>1 DEF Load, Count, TypeOK, PlaceType, States
<1>2. CASE RunReset
  BY <1>2 DEF RunReset
<1>3. CASE HangUp \/ GiveUp
  BY <1>3 DEF HangUp, GiveUp
<1>4. CASE SwitchedOff
  BY <1>4 DEF SwitchedOff
<1>5. CASE RunPowerOff \/ RunPowerOn
  BY <1>5 DEF RunPowerOff, RunPowerOn
<1>6. CASE InitFails
  BY <1>6 DEF InitFails
<1>7. CASE InitDials
  BY <1>7 DEF InitDials
<1>8. CASE Dialled
  BY <1>8 DEF Dialled
<1>9. CASE RunWaitDial \/ RunOnline
  BY <1>9 DEF RunWaitDial, RunOnline
<1>10. CASE SmsNotDue
  BY <1>10 DEF SmsNotDue
<1>11. CASE SmsBegins
  BY <1>11 DEF SmsBegins
<1>12. CASE SmsEnds
  BY <1>12 DEF SmsEnds
<1>13. CASE CallBack
  BY <1>13 DEF CallBack, CbDown, CbOnline, CbTimer
<1>14. CASE ComesUp
  BY <1>14 DEF ComesUp
<1>15. CASE GoesDown
  BY <1>15 DEF GoesDown
<1>16. CASE Receive \/ RefreshTest \/ Refresh \/ \E s \in Spans : Config(s)
  BY <1>16 DEF Receive, RefreshTest, Refresh, Config
<1>17. CASE UNCHANGED vars
  BY <1>17 DEF vars
<1> QED
  BY <1>1, <1>2, <1>3, <1>4, <1>5, <1>6, <1>7, <1>8, <1>9, <1>10, <1>11, <1>12, <1>13,
     <1>14, <1>15, <1>16, <1>17 DEF Next, Maintain

LEMMA PowerStep ==
  ASSUME TypeOK, PowerInv, [Next]_vars
  PROVE  PowerInv'
<1> USE DEF PowerInv, hw, link
<1>0. /\ cnt \in Nat /\ read \in Nat /\ 0 < PowerAt /\ PowerAt <= BootTime
      /\ PowerAt \in Nat /\ BootTime \in Nat /\ now \in {0, read + 1}
  BY Times, NowType DEF TypeOK, PlaceType
<1>1. CASE Load
  BY <1>0, <1>1 DEF Load
<1>7. CASE Count
  BY <1>7 DEF Count, now
<1>2. CASE RunReset
  BY <1>2 DEF RunReset
<1>3. CASE HangUp \/ GiveUp
  BY <1>3 DEF HangUp, GiveUp
<1>4. CASE SwitchedOff
  BY <1>0, <1>4 DEF SwitchedOff
<1>5. CASE RunPowerOff
  BY <1>0, <1>5 DEF RunPowerOff
<1>6. CASE RunPowerOn
  <2>1. PICK c \in {now, cnt} : power' = (power \/ c = PowerAt)
    BY <1>6 DEF RunPowerOn, Seen
  <2>2. (power => power') /\ (c = PowerAt => power')
    BY <2>1, Zenon
  <2>3. PICK d \in {now, cnt} : IF d > BootTime THEN ste' = "INIT" /\ cnt' = 0
                                              ELSE ste' = ste /\ cnt' = cnt
    BY <1>6 DEF RunPowerOn, Seen
  <2>4. pc = "POWERON" /\ pc' = "sms"
    BY <1>6 DEF RunPowerOn
  <2>5. cnt >= PowerAt => power'
    <3>1. CASE read >= PowerAt
      BY <2>2, <2>4, <3>1 DEF PowerInv
    <3>2. CASE ~ (read >= PowerAt) /\ cnt >= PowerAt
      <4>1. cnt = now /\ now = read + 1 /\ now = PowerAt
        BY <1>0, <2>4, <3>2 DEF PowerInv
      <4>2. c = PowerAt
        BY <2>1, <4>1
      <4> QED
        BY <2>2, <4>2
    <3> QED
      BY <3>1, <3>2
  <2>6. d > BootTime => power'
    <3> SUFFICES ASSUME d > BootTime PROVE power'
      OBVIOUS
    <3>1. d = now
      BY <1>0, <2>3, <2>4 DEF PowerInv
    <3>2. read >= PowerAt
      BY <1>0, <3>1
    <3> QED
      BY <2>2, <2>4, <3>2 DEF PowerInv
  <2>7. /\ (ste = "INIT" => power) /\ (ste' = "INIT" => ste = "INIT" \/ d > BootTime)
        /\ (ste' = "POWERON" /\ cnt' >= PowerAt => cnt >= PowerAt)
    BY <1>0, <2>3
  <2>8. ste' = "INIT" => power'
    BY <2>2, <2>6, <2>7, Zenon
  <2>9. ste' = "POWERON" /\ cnt' >= PowerAt => power'
    BY <2>5, <2>7, Zenon
  <2> QED
    BY <2>4, <2>8, <2>9
<1>8. CASE InitFails
  BY <1>8 DEF InitFails
<1>9. CASE InitDials
  BY <1>9 DEF InitDials
<1>10. CASE Dialled
  BY <1>10 DEF Dialled
<1>11. CASE RunWaitDial \/ RunOnline
  BY <1>11 DEF RunWaitDial, RunOnline
<1>12. CASE SmsNotDue \/ SmsBegins
  BY <1>12 DEF SmsNotDue, SmsBegins
<1>13. CASE SmsEnds
  BY <1>13 DEF SmsEnds
<1>14. CASE CallBack
  BY <1>0, <1>14 DEF CallBack, CbDown, CbOnline, CbTimer, now
<1>15. CASE ComesUp \/ GoesDown \/ Receive \/ RefreshTest
  BY <1>15 DEF ComesUp, GoesDown, Receive, RefreshTest, now
<1>16. CASE Refresh
  BY <1>0, <1>16 DEF Refresh
<1>17. CASE \E s \in Spans : Config(s)
  BY <1>17 DEF Config, now
<1>18. CASE UNCHANGED vars
  BY <1>18 DEF vars, now
<1> QED
  BY <1>1, <1>2, <1>3, <1>4, <1>5, <1>6, <1>7, <1>8, <1>9, <1>10, <1>11, <1>12, <1>13,
     <1>14, <1>15, <1>16, <1>17, <1>18 DEF Next, Maintain

LEMMA SilenceStep ==
  ASSUME TypeOK, SilenceInv, [Next]_vars
  PROVE  SilenceInv'
<1> USE DEF SilenceInv, hw, link
<1>0. /\ cnt \in 0 .. MOD - 1 /\ read \in 0 .. MOD - 1 /\ quiet \in 0 .. MOD /\ MOD \in Nat
      /\ now \in Nat
  BY Times, NowType DEF TypeOK, PlaceType
<1>1. CASE Load
  <2>1. /\ read' = cnt /\ quiet' = IF quiet < MOD THEN quiet + 1 ELSE MOD
        /\ cnt' = cnt /\ pc' = "count"
    BY <1>1 DEF Load
  <2>2. now' = (cnt + 1) % MOD
    BY <2>1 DEF now
  <2>3. now' \in {0, cnt + 1}
    BY <1>0, <2>2, CountOn
  <2> QED
    BY <1>0, <2>1, <2>3
<1>14. CASE Count
  BY <1>0, <1>14 DEF Count, now
<1>15. CASE RunWaitDial \/ RunOnline \/ GiveUp
  BY <1>0, <1>15 DEF RunWaitDial, RunOnline, GiveUp
<1>2. CASE RunReset \/ RunPowerOff \/ RunPowerOn
  BY <1>0, <1>2 DEF RunReset, RunPowerOff, RunPowerOn
<1>3. CASE HangUp
  BY <1>3 DEF HangUp
<1>4. CASE SwitchedOff \/ Dialled
  BY <1>0, <1>4 DEF SwitchedOff, Dialled
<1>5. CASE InitFails
  BY <1>5 DEF InitFails
<1>6. CASE InitDials
  BY <1>6 DEF InitDials
<1>7. CASE SmsNotDue \/ SmsBegins
  BY <1>7 DEF SmsNotDue, SmsBegins
<1>8. CASE SmsEnds
  BY <1>8 DEF SmsEnds
<1>9. CASE CbTimer \/ Refresh
  BY <1>0, <1>9 DEF CbTimer, Refresh, Landed, now
<1>10. CASE CbDown \/ CbOnline
  BY <1>10 DEF CbDown, CbOnline, now
<1>11. CASE ComesUp \/ GoesDown \/ Receive \/ RefreshTest
  BY <1>11 DEF ComesUp, GoesDown, Receive, RefreshTest, now
<1>12. CASE \E s \in Spans : Config(s)
  BY <1>12 DEF Config, now
<1>13. CASE UNCHANGED vars
  BY <1>13 DEF vars, now
<1> QED
  BY <1>1, <1>2, <1>3, <1>4, <1>5, <1>6, <1>7, <1>8, <1>9, <1>10, <1>11, <1>12, <1>13,
     <1>14, <1>15 DEF Next, Maintain, CallBack

LEMMA InvStep == Inv /\ [Next]_vars => Inv'
  BY TypeStep, SessionStep, PowerStep, SilenceStep DEF Inv

THEOREM Invariant == Spec => []Inv
  BY InvInit, InvStep, PTL DEF Spec

-----------------------------------------------------------------------------
(* The counters of modem_Run keep their types, tmo its cap.                 *)
THEOREM ModemTyped == Spec => []TypeOK
  BY Invariant, PTL DEF Inv

(* No PPP session outlives a power cycle (the RESET case of modem_Run).     *)
THEOREM ModemHungUp == Spec => []HungUp
<1>1. Inv => HungUp
  BY DEF Inv, SessionInv, HungUp
<1> QED
  BY <1>1, Invariant, PTL

(* Commands go only to a modem that was given power.                        *)
THEOREM ModemPowered == Spec => []Powered
<1>1. Inv => Powered
  BY DEF Inv, PowerInv, Powered
<1> QED
  BY <1>1, Invariant, PTL

(* The idle timer gives a link up only after more than idle seconds without *)
(* a frame that modem_Run had to notice: one that comes while it counts or  *)
(* decides is not seen by it (the MODEM_S_ONLINE case).                     *)
THEOREM ModemPatient == Spec => Patient
<1>1. Inv /\ [Next]_vars => [pc = "ONLINE" /\ pc' = "giveup" => quiet > idle]_vars
  <2> SUFFICES ASSUME Inv, [Next]_vars, pc = "ONLINE", pc' = "giveup"
               PROVE  quiet > idle
    OBVIOUS
  <2>1. CASE RunOnline
    <3>1. PICK c \in {now, cnt} : c > idle
      BY <2>1 DEF RunOnline, Seen
    <3>2. c <= quiet /\ c \in Nat /\ idle \in Nat /\ quiet \in Nat
      BY NowType, Times DEF Inv, SilenceInv, TypeOK, PlaceType
    <3> QED
      BY <3>1, <3>2
  <2>2. ~ Maintain \/ RunOnline
    BY DEF Maintain, Load, Count, RunReset, HangUp, SwitchedOff, RunPowerOff, RunPowerOn,
           InitFails, InitDials, Dialled, RunWaitDial, GiveUp, SmsNotDue, SmsBegins, SmsEnds
  <2>3. pc' # pc
    OBVIOUS
  <2>4. ~ CallBack
    BY <2>3 DEF CallBack, CbDown, CbOnline, CbTimer
  <2>5. ~ (ComesUp \/ GoesDown \/ Receive \/ RefreshTest \/ Refresh)
    BY <2>3 DEF ComesUp, GoesDown, Receive, RefreshTest, Refresh
  <2>6. ~ \E s \in Spans : Config(s)
    BY <2>3 DEF Config
  <2> QED
    BY <2>1, <2>2, <2>3, <2>4, <2>5, <2>6 DEF Next, vars
<1> QED
  BY <1>1, Invariant, PTL DEF Spec, Patient
=============================================================================
