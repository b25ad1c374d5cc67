------------------------------- MODULE Modem -------------------------------
(* The cellular modem (drivers/modem.c) as built for lwIP with threads and  *)
(* short messages: modem_Run is called by the maintenance thread once a     *)
(* second, PPP reports through modem_linkStatusCB from the tcpip thread,    *)
(* and a link of the remote protocol calls modem_Refresh for every frame.   *)
(* None of the three takes a lock.  One step of modem_Run is one piece of   *)
(* it that the other threads can separate from the next.                    *)
EXTENDS Naturals

CONSTANTS MOD,       \* cnt, tmo and idle are counted modulo MOD (2^16)
          PowerAt,   \* the second of the start at which power is given (5)
          BootTime,  \* the seconds a start takes (16)
          DialTime,  \* the seconds a dialled link may take (120)
          SmsAt,     \* the count at which messages are read (30)
          MaxOff,    \* the longest time the modem is left off (1800)
          Spans      \* the keep-alive spans modem_Config is called with

ASSUME ModemAssumption ==
  /\ {MOD, PowerAt, BootTime, DialTime, SmsAt, MaxOff} \cup Spans \subseteq Nat
  /\ 0 < PowerAt /\ PowerAt <= BootTime
  /\ 0 < DialTime
  /\ \A n \in {BootTime, DialTime, MaxOff} : n + 2 < MOD
  /\ \A s \in Spans : (3 * s) % MOD < MOD - 1

VARIABLES ste,     \* p->ste
          cnt,     \* p->cnt, the seconds in the state
          tmo,     \* p->tmo, the seconds to stay off
          idle,    \* p->idle, the seconds without a frame that end a link
          dialed,  \* p->dialed
          power,   \* what modem_Pwr last set
          pc,      \* where modem_Run stands
          read,    \* the cnt that p->cnt += 1 has loaded
          ppp,     \* the PPP session: "dead", "opening" or "up"
          cb,      \* what the call-back in progress has left to do
          mode,    \* the modem takes the line for "data" or for commands
          heard,   \* a frame of the remote protocol: "no", "got" or "online"
          quiet    \* seconds since the link came up or was heard (a history)

hw   == <<power, mode>>
link == <<ppp, cb>>
vars == <<ste, cnt, tmo, idle, dialed, hw, pc, read, link, heard, quiet>>

States == {"RESET", "POWEROFF", "POWERON", "INIT", "WAITDIAL", "ONLINE"}

Init ==
  /\ ste = "RESET" /\ cnt = 0 /\ tmo = 0 /\ idle = 0 /\ dialed = FALSE
  /\ power = FALSE /\ mode = "cmd"
  /\ pc = "sleep" /\ read = 0
  /\ ppp = "dead" /\ cb = "none" /\ heard = "no" /\ quiet = 0

-----------------------------------------------------------------------------
(* modem_Run.  The thread has slept for a second: what the other threads    *)
(* had begun before it did is finished, what they begin while modem_Run     *)
(* works may be left half done until it sleeps again.                       *)
Load ==
  /\ pc = "sleep" /\ cb = "none" /\ heard # "online"
  /\ read' = cnt /\ pc' = "count"
  /\ quiet' = IF quiet < MOD THEN quiet + 1 ELSE MOD
  /\ UNCHANGED <<ste, cnt, tmo, idle, dialed, hw, link, heard>>

now == (read + 1) % MOD

\* The count is stored and the case of the state chosen.
Count ==
  /\ pc = "count"
  /\ cnt' = now /\ pc' = ste
  /\ UNCHANGED <<ste, tmo, idle, dialed, hw, read, link, heard, quiet>>

\* What a test of p->cnt sees: the count, or what was stored over it since.
Seen == {now, cnt}

RunReset ==
  /\ pc = "RESET"
  /\ power' = FALSE /\ mode' = "cmd"
  /\ ste' = "POWEROFF" /\ pc' = "hang"
  /\ UNCHANGED <<cnt, tmo, idle, dialed, read, link, heard, quiet>>

\* pppSigHUP calls modem_linkStatusCB before it returns, if PPP still lives.
HangUp ==
  /\ pc = "hang"
  /\ IF dialed /\ ppp # "dead"
       THEN ppp' = "dead" /\ ste' = "RESET"
       ELSE UNCHANGED <<ppp, ste>>
  /\ pc' = "off"
  /\ UNCHANGED <<cnt, tmo, idle, dialed, hw, read, cb, heard, quiet>>

\* A mutant: the time off is not capped.
SwitchedOffLonger ==
  /\ pc = "off"
  /\ dialed' = FALSE
  /\ tmo' = (3 * (1 + tmo)) % MOD
  /\ cnt' = 0 /\ pc' = "sms"
  /\ UNCHANGED <<ste, idle, hw, read, link, heard, quiet>>

SwitchedOff ==
  /\ pc = "off"
  /\ dialed' = FALSE
  /\ tmo' = IF 3 * (1 + tmo) > MaxOff THEN MaxOff ELSE 3 * (1 + tmo)
  /\ cnt' = 0 /\ pc' = "sms"
  /\ UNCHANGED <<ste, idle, hw, read, link, heard, quiet>>

\* A mutant: the start goes on with the count of the time off.
RunPowerOffCounts ==
  /\ pc = "POWEROFF"
  /\ \E c \in Seen : ste' = IF c > tmo THEN "POWERON" ELSE ste
  /\ pc' = "sms"
  /\ UNCHANGED <<cnt, tmo, idle, dialed, hw, read, link, heard, quiet>>

RunPowerOff ==
  /\ pc = "POWEROFF"
  /\ \E c \in Seen :
       IF c > tmo THEN ste' = "POWERON" /\ cnt' = 0 ELSE UNCHANGED <<ste, cnt>>
  /\ pc' = "sms"
  /\ UNCHANGED <<tmo, idle, dialed, hw, read, link, heard, quiet>>

RunPowerOn ==
  /\ pc = "POWERON"
  /\ \E c \in Seen : power' = (power \/ c = PowerAt)
  /\ \E c \in Seen :
       IF c > BootTime THEN ste' = "INIT" /\ cnt' = 0 ELSE UNCHANGED <<ste, cnt>>
  /\ pc' = "sms"
  /\ UNCHANGED <<tmo, idle, dialed, mode, read, link, heard, quiet>>

\* modem_InitCmd has failed at one of its commands.
InitFails ==
  /\ pc = "INIT"
  /\ ste' = "RESET" /\ pc' = "sms"
  /\ UNCHANGED <<cnt, tmo, idle, dialed, hw, read, link, heard, quiet>>

\* The modem is dialled and pppOpen called; a second session is refused.
InitDials ==
  /\ pc = "INIT"
  /\ dialed' = TRUE /\ mode' = "data"
  /\ ppp' = IF ppp = "dead" THEN "opening" ELSE ppp
  /\ pc' = "dialled"
  /\ UNCHANGED <<ste, cnt, tmo, idle, power, read, cb, heard, quiet>>

\* ... and only then the state is set, whatever PPP has reported meanwhile.
Dialled ==
  /\ pc = "dialled"
  /\ ste' = "WAITDIAL" /\ cnt' = 0 /\ pc' = "sms"
  /\ UNCHANGED <<tmo, idle, dialed, hw, read, link, heard, quiet>>

\* A mutant: PPP is waited for without a limit.
RunWaitDialOnly ==
  /\ pc = "WAITDIAL" /\ pc' = "sms"
  /\ UNCHANGED <<ste, cnt, tmo, idle, dialed, hw, read, link, heard, quiet>>

RunWaitDial ==
  /\ pc = "WAITDIAL"
  /\ \E c \in Seen : pc' = IF c > DialTime THEN "giveup" ELSE "sms"
  /\ UNCHANGED <<ste, cnt, tmo, idle, dialed, hw, read, link, heard, quiet>>

\* A mutant: the idle timer is left to PPP.
RunOnlineOnly ==
  /\ pc = "ONLINE" /\ pc' = "sms"
  /\ UNCHANGED <<ste, cnt, tmo, idle, dialed, hw, read, link, heard, quiet>>

RunOnline ==
  /\ pc = "ONLINE"
  /\ \E c \in Seen : pc' = IF c > idle THEN "giveup" ELSE "sms"
  /\ UNCHANGED <<ste, cnt, tmo, idle, dialed, hw, read, link, heard, quiet>>

\* The link is given up, whatever the call-back has made of it since.
GiveUp ==
  /\ pc = "giveup"
  /\ ste' = "RESET" /\ pc' = "sms"
  /\ UNCHANGED <<cnt, tmo, idle, dialed, hw, read, link, heard, quiet>>

\* Where short messages are not due modem_Run is at its end.
SmsNotDue ==
  /\ pc = "sms" /\ ~ (dialed /\ cnt = SmsAt)
  /\ pc' = "sleep"
  /\ UNCHANGED <<ste, cnt, tmo, idle, dialed, hw, read, link, heard, quiet>>

\* "+++" takes the line away from PPP ...
SmsBegins ==
  /\ pc = "sms" /\ dialed /\ cnt = SmsAt
  /\ dialed' = FALSE /\ mode' = "cmd" /\ pc' = "read"
  /\ UNCHANGED <<ste, cnt, tmo, idle, power, read, link, heard, quiet>>

\* A mutant: dialed is set again only with the line.
SmsEndsDialed ==
  /\ pc = "read"
  /\ \/ mode' = "data" /\ dialed' = TRUE /\ UNCHANGED ste
     \/ ste' = "RESET" /\ UNCHANGED <<mode, dialed>>
  /\ pc' = "sleep"
  /\ UNCHANGED <<cnt, tmo, idle, power, read, link, heard, quiet>>

\* ... "O" gives it back, is refused, or is not sent because +CSQ failed.
SmsEnds ==
  /\ pc = "read"
  /\ \/ mode' = "data" /\ UNCHANGED ste
     \/ ste' = "RESET" /\ UNCHANGED mode
     \/ UNCHANGED <<ste, mode>>
  /\ dialed' = TRUE /\ pc' = "sleep"
  /\ UNCHANGED <<cnt, tmo, idle, power, read, link, heard, quiet>>

-----------------------------------------------------------------------------
(* PPP and its call-back, in the tcpip thread.                              *)
ComesUp ==
  /\ cb = "none" /\ ppp = "opening" /\ mode = "data"
  /\ ppp' = "up" /\ cb' = "up"
  /\ UNCHANGED <<ste, cnt, tmo, idle, dialed, hw, pc, read, heard, quiet>>

\* PPP goes down and may negotiate again, or gives the session up.
GoesDown ==
  /\ cb = "none" /\ ppp # "dead"
  /\ ppp' \in {"opening", "dead"} \ {ppp}
  /\ ppp = "opening" => ppp' = "dead"
  /\ cb' = "down"
  /\ UNCHANGED <<ste, cnt, tmo, idle, dialed, hw, pc, read, heard, quiet>>

CbDown ==
  /\ cb = "down"
  /\ ste' = "RESET" /\ cb' = "none"
  /\ UNCHANGED <<cnt, tmo, idle, dialed, hw, pc, read, ppp, heard, quiet>>

CbOnline ==
  /\ cb = "up"
  /\ ste' = "ONLINE" /\ cb' = "timer"
  /\ UNCHANGED <<cnt, tmo, idle, dialed, hw, pc, read, ppp, heard, quiet>>

\* A store of cnt comes too late for modem_Run when it is counting, whose
\* own store undoes it, or has taken up the link's time: then it is no news.
Landed ==
  IF pc \in {"count", "WAITDIAL", "ONLINE", "giveup"} THEN UNCHANGED quiet ELSE quiet' = 0

\* A mutant: a link that comes up does not restart the timer.
CbTimerRuns ==
  /\ cb = "timer"
  /\ tmo' = 0 /\ cb' = "none"
  /\ Landed
  /\ UNCHANGED <<ste, cnt, idle, dialed, hw, pc, read, ppp, heard>>

CbTimer ==
  /\ cb = "timer"
  /\ cnt' = 0 /\ tmo' = 0 /\ cb' = "none"
  /\ Landed
  /\ UNCHANGED <<ste, idle, dialed, hw, pc, read, ppp, heard>>

-----------------------------------------------------------------------------
(* The other threads.                                                       *)
Receive ==
  /\ heard = "no" /\ ppp = "up" /\ mode = "data"
  /\ heard' = "got"
  /\ UNCHANGED <<ste, cnt, tmo, idle, dialed, hw, pc, read, link, quiet>>

\* modem_Refresh: the state is tested, and then the timer is set.
RefreshTest ==
  /\ heard = "got"
  /\ heard' = IF ste = "ONLINE" THEN "online" ELSE "no"
  /\ UNCHANGED <<ste, cnt, tmo, idle, dialed, hw, pc, read, link, quiet>>

Refresh ==
  /\ heard = "online"
  /\ cnt' = 0 /\ heard' = "no"
  /\ Landed
  /\ UNCHANGED <<ste, tmo, idle, dialed, hw, pc, read, link>>

Config(s) ==
  /\ idle' = (3 * s) % MOD
  /\ UNCHANGED <<ste, cnt, tmo, dialed, hw, pc, read, link, heard, quiet>>

-----------------------------------------------------------------------------
Maintain ==
  \/ Load \/ Count \/ RunReset \/ HangUp \/ SwitchedOff \/ RunPowerOff \/ RunPowerOn
  \/ InitFails \/ InitDials \/ Dialled \/ RunWaitDial \/ RunOnline \/ GiveUp
  \/ SmsNotDue \/ SmsBegins \/ SmsEnds

CallBack == CbDown \/ CbOnline \/ CbTimer

Next ==
  \/ Maintain \/ CallBack \/ ComesUp \/ GoesDown
  \/ Receive \/ RefreshTest \/ Refresh
  \/ \E s \in Spans : Config(s)

Spec == Init /\ [][Next]_vars

(* The threads run, a modem that is started for ever passes its commands    *)
(* now and then, and of the links that are dialled for ever one comes up    *)
(* while modem_Run waits for it.                                            *)
ALinkComesUp ==
  []<>(pc = "dialled") => []<>(pc = "sleep" /\ ste = "WAITDIAL" /\ cb = "up")

Fairness ==
  /\ WF_vars(Maintain) /\ WF_vars(CallBack) /\ WF_vars(RefreshTest \/ Refresh)
  /\ SF_vars(InitDials)
  /\ ALinkComesUp

FairSpec == Spec /\ Fairness
=============================================================================
