--------------------------- MODULE Sessions_proofs ---------------------------
(***************************************************************************)
(* Theorems about what one user meets at the server, for any number of     *)
(* devices, calls, responses, accounts and saves.                          *)
(*                                                                         *)
(* Sessions.  A handshake may go on after what it looked up has changed;   *)
(* the invariant says that, once the sockets are closed that were to be,   *)
(* every such call is one that a kick has passed by.                       *)
(*                                                                         *)
(* Ripples.  What the page lists is right, given the answer it waits for   *)
(* and the messages on their way to it, or it is burning.                  *)
(*                                                                         *)
(* RecoveredAccounts.  Every row says which name it holds or lost, and a   *)
(* row that lost its name finds the better claim on record; a claim, a     *)
(* profile given up and an account deleted each keep that for all rows.    *)
(***************************************************************************)
EXTENDS Sessions, Ripples, RecoveredAccounts, FiniteSetTheorems, TLAPS

-----------------------------------------------------------------------------
(* Sessions: the inductive invariant                                       *)

Asking == [does : {"handshake", "session", "bind", "bootstrap"},
           device : Devices, key : Nat, looked : Nat]

Types ==
    /\ bound \in Devices /\ keyInUse \in Nat /\ rebound \in Nat /\ rebound <= keyInUse
    /\ sanctions \subseteq {"suspended", "removed"}
    /\ call \in [Calls -> Asking \cup {IdleCall, [does |-> "kick"]}]
    /\ open \in Calls \cup {NoDevice} /\ owedKicks \in Nat

\* One call is the session, and it has looked everything up.
OneIsOpen ==
    \A c \in Calls : Does(c, "session") <=> c = open
AllLooked ==
    \A c \in Calls : Does(c, "session") => call[c].looked = 4

\* A handshake or a session that a look-up it passed would now refuse.
Misfit(c) ==
    /\ Does(c, "handshake") \/ Does(c, "session")
    /\ \/ call[c].looked > 0 /\ call[c].key < rebound
       \/ call[c].looked > 1 /\ "removed" \in sanctions
       \/ call[c].looked > 2 /\ "suspended" \in sanctions
       \/ call[c].looked > 3 /\ call[c].device # bound

Closing == owedKicks # 0 \/ \E c \in Calls : Does(c, "kick")
Settled == Closing \/ \A c \in Calls : Misfit(c) => c \in lookedEarly

IInv == Types /\ OneIsOpen /\ AllLooked /\ Settled

-----------------------------------------------------------------------------
(* Lemmas                                                                  *)

\* What a handshake looks up, and in which order.
LEMMA Looks ==
    /\ LooksUp("handshake") = <<"key", "removal", "suspension", "device">>
    /\ Len(LooksUp("handshake")) = 4
<1>1. LooksUp("handshake") = <<"key", "removal", "suspension", "device">>
  BY DEF LooksUp, HandshakeLooksUp
<1>2. Len(<<"key", "removal", "suspension", "device">>) = 4
  OBVIOUS
<1>3. QED
  BY <1>1, <1>2

\* A call that is neither idle nor a kick has a device, a key and a count.
LEMMA AskingCall ==
    ASSUME Types, NEW c \in Calls, ~Does(c, "nothing"), ~Does(c, "kick")
    PROVE  call[c] \in Asking
  BY DEF Types, Does, IdleCall

\* No call becomes a misfit while what is looked up stays as it is or is relaxed.
LEMMA MisfitsStay ==
    ASSUME IInv, UNCHANGED <<bound, rebound>>, sanctions' \subseteq sanctions,
           lookedEarly' = lookedEarly,
           \A c \in Calls : call'[c] = call[c] \/ ~Misfit(c)',
           Closing => Closing'
    PROVE  Settled'
<1>1. ASSUME NEW c \in Calls, call'[c] = call[c], Misfit(c)' PROVE Misfit(c)
  BY <1>1 DEF Misfit, Does
<1>2. QED
  BY <1>1 DEF IInv, Settled

LEMMA BeginSound ==
    ASSUME IInv, NEW c \in Calls, NEW what \in {"handshake", "bind", "bootstrap"},
           NEW d \in Devices, NEW k \in 1 .. keyInUse, Begin(c, what, d, k)
    PROVE  IInv'
<1> DEFINE new == [does |-> what, device |-> d, key |-> k, looked |-> 0]
<1>1. /\ Does(c, "nothing") /\ call' = [call EXCEPT ![c] = new]
      /\ UNCHANGED <<bound, keyInUse, sanctions, open, owedKicks, rebound>>
      /\ lookedEarly' = lookedEarly \ {c}
  BY DEF Begin
<1>2. k \in Nat
  BY DEF IInv, Types
<1>3. new \in Asking /\ new.does = what /\ new.looked = 0
  BY <1>2 DEF Asking
<1> HIDE DEF new
<1>4. call'[c] = new /\ \A b \in Calls : b # c => call'[b] = call[b]
  BY <1>1 DEF IInv, Types
<1>5. Types'
  BY <1>1, <1>3 DEF IInv, Types
<1>6. \A b \in Calls : Does(b, "session")' <=> Does(b, "session")
  BY <1>1, <1>3, <1>4 DEF Does
<1>7. OneIsOpen' /\ AllLooked'
  BY <1>1, <1>3, <1>4, <1>6 DEF IInv, OneIsOpen, AllLooked, Does
<1>8. ~Misfit(c)'
  BY <1>3, <1>4 DEF Misfit
<1>9. ASSUME NEW b \in Calls, b # c, Misfit(b)' PROVE Misfit(b)
  BY <1>1, <1>4, <1>9 DEF Misfit, Does
<1>10. Closing => Closing'
  BY <1>1, <1>4 DEF Closing, Does
<1>11. Settled'
  BY <1>1, <1>8, <1>9, <1>10 DEF IInv, Settled
<1>12. QED
  BY <1>5, <1>7, <1>11 DEF IInv

\* A look-up that is passed is not one that would refuse the call.
LEMMA LookSound ==
    ASSUME IInv, NEW c \in Calls, Look(c)
    PROVE  IInv'
<1> DEFINE what == call[c].does
           looked == call[c].looked
<1>1. /\ ~Does(c, "nothing") /\ ~Does(c, "session") /\ ~Does(c, "kick")
      /\ looked < Len(LooksUp(what))
      /\ UNCHANGED <<bound, keyInUse, sanctions, open, owedKicks, rebound, lookedEarly>>
  BY DEF Look
<1>2. call[c] \in Asking /\ looked \in Nat
  BY <1>1, AskingCall DEF IInv, Asking
<1>3. \A b \in Calls : b # c => call'[b] = call[b]
  BY DEF Look, IInv, Types
<1>4. /\ call'[c] \in Asking \cup {IdleCall}
      /\ call'[c] = IdleCall
         \/ /\ call'[c].does = what /\ call'[c].key = call[c].key
            /\ call'[c].device = call[c].device /\ call'[c].looked = looked + 1
            /\ Passes(what, call[c].device, call[c].key, LooksUp(what)[looked + 1])
  <2>0. call'[c] = IF Passes(what, call[c].device, call[c].key, LooksUp(what)[looked + 1])
                   THEN [call[c] EXCEPT !.looked = looked + 1] ELSE IdleCall
    <3> DEFINE next == IF Passes(what, call[c].device, call[c].key, LooksUp(what)[looked + 1])
                       THEN [call[c] EXCEPT !.looked = looked + 1] ELSE IdleCall
    <3>1. call' = [call EXCEPT ![c] = next]
      BY DEF Look
    <3> HIDE DEF next
    <3>2. call'[c] = next
      BY <3>1 DEF IInv, Types
    <3>3. QED
      BY <3>2 DEF next
  <2>1. CASE Passes(what, call[c].device, call[c].key, LooksUp(what)[looked + 1])
    <3>1. call'[c] = [call[c] EXCEPT !.looked = looked + 1]
      BY <2>0, <2>1
    <3>2. QED
      BY <1>2, <2>1, <3>1 DEF Asking
  <2>2. CASE ~Passes(what, call[c].device, call[c].key, LooksUp(what)[looked + 1])
    BY <2>0, <2>2
  <2>3. QED
    BY <2>1, <2>2
<1>5. Types'
  <2>1. call' = [b \in Calls |-> call'[b]]
    BY DEF Look, IInv, Types
  <2>2. \A b \in Calls : call'[b] \in Asking \cup {IdleCall, [does |-> "kick"]}
    BY <1>3, <1>4 DEF IInv, Types
  <2>3. QED
    BY <1>1, <2>1, <2>2 DEF IInv, Types
<1>6. \A b \in Calls : /\ Does(b, "session")' <=> Does(b, "session")
                       /\ Does(b, "kick")' <=> Does(b, "kick")
  BY <1>1, <1>3, <1>4 DEF Does, IdleCall
<1>7. OneIsOpen' /\ AllLooked'
  BY <1>1, <1>3, <1>6 DEF IInv, OneIsOpen, AllLooked, Does
<1>8. Closing => Closing'
  BY <1>1, <1>6 DEF Closing
<1>9. Misfit(c)' => Misfit(c)
  <2>1. SUFFICES ASSUME Misfit(c)' PROVE Misfit(c)
    OBVIOUS
  <2>2. call'[c].does \in {"handshake", "session"}
    BY <2>1 DEF Misfit, Does
  <2>3. call'[c] # IdleCall
    BY <2>2 DEF IdleCall
  <2>4. /\ what = "handshake" /\ call'[c].key = call[c].key
        /\ call'[c].device = call[c].device /\ call'[c].looked = looked + 1
        /\ Passes("handshake", call[c].device, call[c].key, LooksUp("handshake")[looked + 1])
    BY <1>1, <1>4, <2>2, <2>3 DEF Does
  <2>5. looked < 4
    BY <1>1, <2>4, Looks
  <2>6. looked \in {0, 1, 2, 3}
    BY <1>2, <2>5
  <2>7. /\ looked = 0 => call[c].key = keyInUse
        /\ looked = 1 => "removed" \notin sanctions
        /\ looked = 2 => "suspended" \notin sanctions
        /\ looked = 3 => bound = call[c].device
    <3>1. CASE looked = 0
      <4>1. LooksUp("handshake")[looked + 1] = "key"
        BY <3>1, Looks
      <4>2. QED
        BY <2>4, <3>1, <4>1 DEF Passes, KeyServes, Suspended
    <3>2. CASE looked = 1
      <4>1. LooksUp("handshake")[looked + 1] = "removal"
        BY <3>2, Looks
      <4>2. QED
        BY <2>4, <3>2, <4>1 DEF Passes, KeyServes, Suspended
    <3>3. CASE looked = 2
      <4>1. LooksUp("handshake")[looked + 1] = "suspension"
        BY <3>3, Looks
      <4>2. QED
        BY <2>4, <3>3, <4>1 DEF Passes, KeyServes, Suspended
    <3>4. CASE looked = 3
      <4>1. LooksUp("handshake")[looked + 1] = "device"
        BY <3>4, Looks
      <4>2. QED
        BY <2>4, <3>4, <4>1 DEF Passes, KeyServes, Suspended
    <3>5. QED
      BY <2>6, <3>1, <3>2, <3>3, <3>4
  <2>8. Does(c, "handshake")
    BY <2>4 DEF Does
  <2>9. \/ looked + 1 > 0 /\ call[c].key < rebound
        \/ looked + 1 > 1 /\ "removed" \in sanctions
        \/ looked + 1 > 2 /\ "suspended" \in sanctions
        \/ looked + 1 > 3 /\ call[c].device # bound
    BY <1>1, <2>1, <2>4 DEF Misfit
  <2>10. rebound <= keyInUse /\ rebound \in Nat /\ keyInUse \in Nat
    BY DEF IInv, Types
  <2>11. \/ looked > 0 /\ call[c].key < rebound
         \/ looked > 1 /\ "removed" \in sanctions
         \/ looked > 2 /\ "suspended" \in sanctions
         \/ looked > 3 /\ call[c].device # bound
    BY <2>6, <2>7, <2>9, <2>10
  <2>12. QED
    BY <2>8, <2>11 DEF Misfit
<1>10. ASSUME NEW b \in Calls, b # c, Misfit(b)' PROVE Misfit(b)
  BY <1>1, <1>3, <1>10 DEF Misfit, Does
<1>11. Settled'
  BY <1>1, <1>8, <1>9, <1>10 DEF IInv, Settled
<1>12. QED
  BY <1>5, <1>7, <1>11 DEF IInv

\* A handshake that has looked everything up takes the other session's place.
LEMMA RegisterSound ==
    ASSUME IInv, NEW c \in Calls, RegisterSocket(c)
    PROVE  IInv'
<1>1. /\ Does(c, "handshake") /\ call[c].looked = 4
      /\ open' = c
      /\ UNCHANGED <<bound, keyInUse, sanctions, owedKicks, rebound, lookedEarly>>
  BY Looks DEF RegisterSocket, Ready, Does
<1>2. call[c] \in Asking
  BY <1>1, AskingCall DEF IInv, Does
<1>3. /\ call'[c] = [call[c] EXCEPT !.does = "session"]
      /\ \A b \in Calls : b # c => call'[b] = IF b = open THEN IdleCall ELSE call[b]
      /\ call' = [b \in Calls |-> call'[b]]
  BY DEF RegisterSocket
<1>4. /\ call'[c] \in Asking /\ call'[c].does = "session" /\ call'[c].looked = 4
      /\ call'[c].key = call[c].key /\ call'[c].device = call[c].device
  BY <1>1, <1>2, <1>3 DEF Asking
<1>5. Types'
  BY <1>1, <1>3, <1>4 DEF IInv, Types
<1>6. \A b \in Calls : Does(b, "session")' <=> b = c
  <2>1. ASSUME NEW b \in Calls, b # c, Does(b, "session")' PROVE FALSE
    <3>1. b # open /\ call'[b] = call[b]
      BY <1>3, <2>1 DEF Does, IdleCall
    <3>2. Does(b, "session")
      BY <2>1, <3>1 DEF Does
    <3>3. QED
      BY <3>1, <3>2 DEF IInv, OneIsOpen
  <2>2. QED
    BY <1>4, <2>1 DEF Does
<1>7. OneIsOpen' /\ AllLooked'
  BY <1>1, <1>4, <1>6 DEF OneIsOpen, AllLooked
<1>8. Closing => Closing'
  <2>1. ASSUME NEW b \in Calls, Does(b, "kick") PROVE Does(b, "kick")'
    <3>1. b # c /\ b # open
      BY <1>1, <2>1 DEF Does, IInv, OneIsOpen
    <3>2. QED
      BY <1>3, <2>1, <3>1 DEF Does
  <2>2. QED
    BY <1>1, <2>1 DEF Closing
<1>9. Misfit(c)' => Misfit(c)
  BY <1>1, <1>4 DEF Misfit, Does
<1>10. ASSUME NEW b \in Calls, b # c, Misfit(b)' PROVE Misfit(b)
  <2>1. call'[b] # IdleCall
    BY <1>10 DEF Misfit, Does, IdleCall
  <2>2. call'[b] = call[b]
    BY <1>3, <1>10, <2>1
  <2>3. QED
    BY <1>1, <1>10, <2>2 DEF Misfit, Does
<1>11. Settled'
  BY <1>1, <1>8, <1>9, <1>10 DEF IInv, Settled
<1>12. QED
  BY <1>5, <1>7, <1>11 DEF IInv

\* Once sockets are closed, no session is left, and a misfit was passed by.
LEMMA KickedSound ==
    ASSUME IInv, NEW c, UNCHANGED <<bound, keyInUse, sanctions, rebound>>, owedKicks' \in Nat,
           Kicked(c)
    PROVE  IInv'
<1>1. /\ open' = NoDevice /\ lookedEarly' = lookedEarly \cup {b \in Calls : OutOfDate(b)}
      /\ call' = [b \in Calls |-> IF b \in {c, open} THEN IdleCall ELSE call[b]]
  BY DEF Kicked
<1>2. Types'
  BY <1>1 DEF IInv, Types
<1>3. \A b \in Calls : ~Does(b, "session")' /\ b # NoDevice
  BY <1>1, SessionsAssumption DEF IInv, OneIsOpen, Does, IdleCall
<1>4. OneIsOpen' /\ AllLooked'
  BY <1>1, <1>3 DEF OneIsOpen, AllLooked
<1>5. ASSUME NEW b \in Calls, Misfit(b)' PROVE b \in lookedEarly'
  <2>1. Does(b, "handshake")'
    BY <1>3, <1>5 DEF Misfit
  <2>2. call'[b] = call[b]
    BY <1>1, <2>1 DEF Does, IdleCall
  <2>3. OutOfDate(b)
    BY <1>5, <2>1, <2>2 DEF Misfit, OutOfDate, Does
  <2>4. QED
    BY <1>1, <2>3
<1>6. QED
  BY <1>2, <1>4, <1>5 DEF IInv, Settled

-----------------------------------------------------------------------------
(* The theorems                                                            *)

LEMMA InitSound == SessionsInit => IInv
<1> SUFFICES ASSUME SessionsInit PROVE IInv
  OBVIOUS
<1>1. \A c \in Calls : call[c] = IdleCall /\ c # NoDevice
  BY SessionsAssumption DEF SessionsInit
<1>2. \A c \in Calls : ~Does(c, "session") /\ ~Does(c, "handshake")
  BY <1>1 DEF Does, IdleCall
<1>3. bound \in Devices
  BY SessionsAssumption DEF SessionsInit
<1>4. Types
  BY <1>1, <1>3 DEF SessionsInit, Types
<1>5. OneIsOpen
  BY <1>1, <1>2 DEF SessionsInit, OneIsOpen
<1>6. QED
  BY <1>2, <1>4, <1>5 DEF IInv, AllLooked, Settled, Misfit

LEMMA StepSound == IInv /\ [SessionsNext]_sessionVars => IInv'
<1> SUFFICES ASSUME IInv, [SessionsNext]_sessionVars PROVE IInv'
  OBVIOUS
<1>1. ASSUME UNCHANGED <<bound, keyInUse, sanctions, call, open, owedKicks, rebound, lookedEarly>>
      PROVE  IInv'
  BY <1>1 DEF IInv, Types, OneIsOpen, AllLooked, Settled, Closing, Misfit, Does
<1>2. CASE IssueChallenge \/ ChallengesCleanup \/ UNCHANGED sessionVars
  BY <1>1, <1>2 DEF IssueChallenge, ChallengesCleanup, sessionVars
<1>3. ASSUME NEW c \in Calls, NEW what \in {"handshake", "bind", "bootstrap"},
             NEW d \in Devices, NEW k \in 1 .. keyInUse, Begin(c, what, d, k)
      PROVE  IInv'
  BY <1>3, BeginSound
<1>4. ASSUME NEW c \in Calls, Look(c) PROVE IInv'
  BY <1>4, LookSound
<1>5. ASSUME NEW c \in Calls, RegisterSocket(c) PROVE IInv'
  BY <1>5, RegisterSound
<1>6. ASSUME NEW c \in Calls, Hangup(c) PROVE IInv'
  <2>1. /\ c = open /\ call' = [call EXCEPT ![c] = IdleCall] /\ open' = NoDevice
        /\ UNCHANGED <<bound, keyInUse, sanctions, owedKicks, rebound, lookedEarly>>
    BY <1>6 DEF Hangup
  <2>2. call'[c] = IdleCall /\ \A b \in Calls : b # c => call'[b] = call[b]
    BY <2>1 DEF IInv, Types
  <2>3. Types'
    BY <2>1 DEF IInv, Types
  <2>4. \A b \in Calls : ~Does(b, "session")' /\ b # NoDevice
    BY <2>1, <2>2, SessionsAssumption DEF IInv, OneIsOpen, Does, IdleCall
  <2>5. OneIsOpen' /\ AllLooked'
    BY <2>1, <2>4 DEF OneIsOpen, AllLooked
  <2>6. Does(c, "session")
    BY <2>1 DEF IInv, OneIsOpen
  <2>7. Closing => Closing'
    BY <2>1, <2>2, <2>6 DEF Closing, Does
  <2>8. \A b \in Calls : call'[b] = call[b] \/ ~Misfit(b)'
    BY <2>2 DEF Misfit, Does, IdleCall
  <2>9. QED
    BY <2>1, <2>3, <2>5, <2>7, <2>8, MisfitsStay DEF IInv
<1>7. ASSUME NEW c \in Calls, Bind(c) PROVE IInv'
  <2>1. /\ bound' = call[c].device /\ call' = [call EXCEPT ![c] = [does |-> "kick"]]
        /\ UNCHANGED <<open, lookedEarly, keyInUse, sanctions, owedKicks, rebound>>
        /\ Does(c, "bind") \/ Does(c, "bootstrap")
    BY <1>7 DEF Bind, BindDevice, Ready
  <2>2. call[c] \in Asking
    BY <2>1, AskingCall DEF IInv, Does
  <2>3. call'[c].does = "kick" /\ \A b \in Calls : b # c => call'[b] = call[b]
    BY <2>1 DEF IInv, Types
  <2>4. Types'
    BY <2>1, <2>2 DEF IInv, Types, Asking
  <2>5. \A b \in Calls : Does(b, "session")' <=> Does(b, "session")
    BY <2>1, <2>3 DEF Does
  <2>6. OneIsOpen' /\ AllLooked'
    BY <2>1, <2>3, <2>5 DEF IInv, OneIsOpen, AllLooked, Does
  <2>7. Closing'
    BY <2>3 DEF Closing, Does
  <2>8. QED
    BY <2>4, <2>6, <2>7 DEF IInv, Settled
<1>8. ASSUME NEW c \in Calls, BindConflict(c) PROVE IInv'
  <2>1. /\ call' = [call EXCEPT ![c] = IdleCall]
        /\ UNCHANGED <<open, lookedEarly, bound, keyInUse, sanctions, owedKicks, rebound>>
        /\ Does(c, "bind") \/ Does(c, "bootstrap")
        /\ \E d \in Calls \ {c} : Does(d, "kick")
    BY <1>8 DEF BindConflict, Ready
  <2>2. call'[c] = IdleCall /\ \A b \in Calls : b # c => call'[b] = call[b]
    BY <2>1 DEF IInv, Types
  <2>3. Types'
    BY <2>1 DEF IInv, Types
  <2>4. \A b \in Calls : Does(b, "session")' <=> Does(b, "session")
    BY <2>1, <2>2 DEF Does, IdleCall
  <2>5. OneIsOpen' /\ AllLooked'
    BY <2>1, <2>2, <2>4 DEF IInv, OneIsOpen, AllLooked, Does
  <2>6. Closing'
    BY <2>1, <2>2 DEF Closing, Does
  <2>7. QED
    BY <2>3, <2>5, <2>6 DEF IInv, Settled
<1>9. ASSUME NEW c \in Calls, KickAfterBind(c) PROVE IInv'
  <2>1. Kicked(c) /\ UNCHANGED <<bound, keyInUse, sanctions, rebound, owedKicks>>
    BY <1>9 DEF KickAfterBind
  <2>2. QED
    BY <2>1, KickedSound DEF IInv, Types
<1>10. CASE KickAfterDecision
  <2>1. Kicked(NoDevice) /\ UNCHANGED <<bound, keyInUse, sanctions, rebound>>
        /\ owedKicks > 0 /\ owedKicks' = owedKicks - 1
    BY <1>10 DEF KickAfterDecision
  <2>2. owedKicks' \in Nat
    BY <2>1 DEF IInv, Types
  <2>3. QED
    BY <2>1, <2>2, KickedSound
<1>11. ASSUME UNCHANGED <<bound, call, open, lookedEarly>>, owedKicks' = owedKicks + 1,
              sanctions' \subseteq {"suspended", "removed"},
              keyInUse' \in Nat, rebound' \in Nat, rebound' <= keyInUse'
       PROVE  IInv'
  <2>1. owedKicks \in Nat
    BY DEF IInv, Types
  <2>2. owedKicks' \in Nat /\ owedKicks' # 0
    BY <1>11, <2>1
  <2>3. Settled'
    BY <2>2 DEF Settled, Closing
  <2>4. QED
    BY <1>11, <2>2, <2>3 DEF IInv, Types, OneIsOpen, AllLooked, Does
<1>12. ASSUME NEW s \in {"suspended", "removed"}, Sanction(s) PROVE IInv'
  BY <1>11, <1>12 DEF Sanction, IInv, Types
<1>13. CASE RebindKey
  BY <1>11, <1>13 DEF RebindKey, IInv, Types
<1>14. CASE Reinstate
  <2>1. /\ UNCHANGED <<bound, keyInUse, call, open, owedKicks, rebound, lookedEarly>>
        /\ sanctions' \subseteq sanctions
    BY <1>14 DEF Reinstate, Suspended
  <2>2. (Closing <=> Closing') /\ Types' /\ OneIsOpen' /\ AllLooked'
    BY <2>1 DEF Closing, Does, IInv, Types, OneIsOpen, AllLooked
  <2>3. QED
    BY <2>1, <2>2, MisfitsStay DEF IInv
<1>15. CASE Rotate
  <2>1. /\ UNCHANGED <<bound, sanctions, call, open, owedKicks, rebound, lookedEarly>>
        /\ keyInUse' = keyInUse + 1
    BY <1>15 DEF Rotate
  <2>2. Closing <=> Closing'
    BY <2>1 DEF Closing, Does
  <2>3. Types' /\ OneIsOpen' /\ AllLooked'
    BY <2>1 DEF Does, IInv, Types, OneIsOpen, AllLooked
  <2>4. QED
    BY <2>1, <2>2, <2>3, MisfitsStay DEF IInv
<1>16. CASE Stop
  <2>1. /\ UNCHANGED <<bound, keyInUse, sanctions, rebound>>
        /\ call' = [c \in Calls |-> IdleCall] /\ open' = NoDevice /\ owedKicks' = 0
    BY <1>16 DEF Stop
  <2>2. \A c \in Calls : ~Does(c, "session")' /\ ~Does(c, "handshake")' /\ c # NoDevice
    BY <2>1, SessionsAssumption DEF Does, IdleCall
  <2>3. Types'
    BY <2>1 DEF IInv, Types
  <2>4. QED
    BY <2>1, <2>2, <2>3 DEF IInv, OneIsOpen, AllLooked, Settled, Misfit
<1>17. QED
  BY <1>2, <1>3, <1>4, <1>5, <1>6, <1>7, <1>8, <1>9, <1>10, <1>12, <1>13, <1>14, <1>15, <1>16
     DEF SessionsNext

\* The inductive strengthening: once the sockets are closed that were to be,
\* every handshake and session fits what it looked up, or a kick passed it by.
THEOREM MisfitsWerePassedBy == SessionsSpec => []IInv
  BY InitSound, StepSound, PTL DEF SessionsSpec

\* The session that is open is of the bound device, of a user who may be here
\* and of a key made since the last rebind, unless its handshake had looked
\* before a kick (HandleWebSocket, BindDevice, disconnectLocal).
THEOREM SessionsAreBound == SessionsSpec => []SessionIsBoundUnlessEarly
<1>1. IInv => SessionIsBoundUnlessEarly
  <2>1. SUFFICES ASSUME IInv, ~Closing, open # NoDevice, open \notin lookedEarly
                 PROVE  /\ call[open].device = bound
                        /\ sanctions = {}
                        /\ call[open].key >= rebound
    BY DEF SessionIsBoundUnlessEarly, Closing
  <2>2. open \in Calls /\ Does(open, "session") /\ call[open].looked = 4
    BY <2>1 DEF IInv, Types, OneIsOpen, AllLooked
  <2>3. ~Misfit(open)
    BY <2>1, <2>2 DEF IInv, Settled
  <2>4. call[open] \in Asking
    BY <2>1, <2>2, AskingCall DEF IInv, Does
  <2>5. /\ ~(call[open].key < rebound) /\ "removed" \notin sanctions
        /\ "suspended" \notin sanctions /\ call[open].device = bound
    BY <2>2, <2>3 DEF Misfit
  <2>6. call[open].key \in Nat /\ rebound \in Nat /\ sanctions \subseteq {"suspended", "removed"}
    BY <2>1, <2>4 DEF Asking, IInv, Types
  <2>7. QED
    BY <2>5, <2>6
<1>2. QED
  BY <1>1, MisfitsWerePassedBy, PTL

-----------------------------------------------------------------------------
(* Ripples: the inductive invariant                                        *)

Kinds == {"none", "live", "deleted"}
PostKinds == {"posted", "composed"}
UpdateKinds == {"updated", "patched"}

RippleShapes ==
    /\ today \in Nat /\ activity \in Nat /\ posting \in [Ripples -> Nat]
    /\ response \in [Ripples -> Kinds \cup {"dropped"}]
    /\ unsent \subseteq [kind : {"posted", "updated"}, ripple : Ripples]
    /\ storing \subseteq [kind : PostKinds \cup UpdateKinds, ripple : Ripples]
    /\ step \in {"closed", "loading", "open"} /\ subscribed \in BOOLEAN
    /\ fetched \in [rows : [Ripples -> Kinds], read : {"nothing", "list", "all"}, at : Nat]
    /\ onPage \in [Ripples -> Kinds] /\ deadline \in Nat
    /\ burnt \in BOOLEAN /\ alight \in BOOLEAN /\ slow \in BOOLEAN /\ prolonged \in BOOLEAN
    /\ ended \subseteq Ripples

\* Times that were taken are not ahead of the clock.
TimesPast ==
    /\ activity <= today /\ fetched.at <= today
    /\ \A r \in Ripples : posting[r] <= today

\* Of a response that is not posted nobody has heard.
NothingYet ==
    /\ \A r \in Ripples : posting[r] # 0 => response[r] = "none"
    /\ \A r \in Ripples : response[r] = "none" =>
            onPage[r] = "none" /\ fetched.rows[r] = "none" /\ r \notin ended
    /\ \A m \in unsent \cup storing :
            /\ response[m.ripple] # "none"
            /\ m.kind \in UpdateKinds => response[m.ripple] \in {"deleted", "dropped"}

\* A page that is closed has nothing, and one that has the answer is not open yet.
PagePhases ==
    /\ fetched.read # "nothing" => step = "loading"
    /\ step = "closed" => ~subscribed /\ deadline = 0 /\ ~burnt /\ ~alight /\ storing = {}

EndedAreGone ==
    \A r \in ended : response[r] = "dropped" \/ (Stored(r) /\ ThreadIdle(activity))

\* What the page lists once the answer it has is shown, and the messages that will reach it.
WillList(r) == IF fetched.read = "nothing" THEN onPage[r] ELSE fetched.rows[r]
Coming == storing \cup {m \in unsent : WriterOf[m.ripple] # Onlooker}
PostComes(r) == \E m \in Coming : m.ripple = r /\ m.kind \in PostKinds
UpdateComes(r) == \E m \in Coming : m.ripple = r /\ m.kind \in UpdateKinds
Burning == step = "open" /\ (alight \/ Overdue)

ListedRight(r) ==
    /\ (WillList(r) = "none" /\ Stored(r) /\ ~ThreadIdle(activity)) =>
            /\ PostComes(r) /\ onPage[r] = "none"
            /\ response[r] = "deleted" => UpdateComes(r)
    /\ (WillList(r) = "live" /\ response[r] = "deleted" /\ ~ThreadIdle(activity)) => UpdateComes(r)
    /\ WillList(r) = "deleted" => response[r] \in {"deleted", "dropped"}
    /\ (WillList(r) # "none" /\ response[r] = "dropped") => Burning

PageIsRight ==
    ((step = "open" \/ fetched.read # "nothing") /\ ~burnt) =>
        \A r \in Ripples \ blurred : ListedRight(r)

\* The page counts down to the end of the thread or past it, unless others prolonged it.
CountsToTheEnd ==
    /\ (~prolonged /\ deadline # 0) => activity = 0 \/ activity + TTL <= deadline
    /\ (~prolonged /\ fetched.read = "all" /\ fetched.at # 0) => activity <= fetched.at
    /\ (burnt \/ alight) => ThreadIdle(activity) \/ prolonged

\* Not further, unless a post was slow.
CountsNoFurther ==
    ~slow =>
      /\ deadline # 0 => deadline <= today \/ (activity # 0 /\ deadline <= activity + TTL)
      /\ (fetched.read = "all" /\ fetched.at # 0) =>
            fetched.at + TTL <= today \/ (activity # 0 /\ fetched.at <= activity)

RippleInv ==
    /\ RippleShapes /\ TimesPast /\ NothingYet /\ PagePhases /\ EndedAreGone
    /\ RemovedAreSilent /\ PageIsRight /\ CountsToTheEnd /\ CountsNoFurther

LEMMA PostRippleKeepsRipples ==
    ASSUME RippleInv, NEW r \in Ripples, PostRipple(r)
    PROVE  RippleInv'
<1> USE RipplesAssumption
<1>1. RippleShapes'
  BY DEF RippleInv, RippleShapes, PostRipple, pageVars
<1>2. TimesPast'
  BY DEF RippleInv, TimesPast, PostRipple, pageVars, RippleShapes
<1>3. NothingYet'
  BY DEF RippleInv, NothingYet, PostRipple, pageVars
<1>4. PagePhases'
  BY DEF RippleInv, PagePhases, PostRipple, pageVars
<1>5. EndedAreGone'
  BY DEF RippleInv, EndedAreGone, PostRipple, pageVars, RippleShapes, Stored, ThreadIdle
<1>6. RemovedAreSilent'
  BY DEF RippleInv, RemovedAreSilent, PostRipple, pageVars
<1>7. PageIsRight'
  BY DEF RippleInv, PageIsRight, PostRipple, homeVars, pageVars, RippleShapes, Kinds, UpdateKinds,
         PostKinds, NothingYet, PagePhases, ListedRight, WillList, Coming, PostComes, UpdateComes,
         Burning, Overdue, Stored, ThreadIdle
<1>8. CountsToTheEnd'
  BY DEF RippleInv, CountsToTheEnd, PostRipple, pageVars, RippleShapes, Stored, ThreadIdle
<1>9. CountsNoFurther'
  BY DEF RippleInv, CountsNoFurther, PostRipple, pageVars
<1> QED
  BY <1>1, <1>2, <1>3, <1>4, <1>5, <1>6, <1>7, <1>8, <1>9 DEF RippleInv

LEMMA PostFailsKeepsRipples ==
    ASSUME RippleInv, NEW r \in Ripples, PostFails(r)
    PROVE  RippleInv'
<1> USE RipplesAssumption
<1>1. RippleShapes'
  BY DEF RippleInv, RippleShapes, PostFails, pageVars
<1>2. TimesPast'
  BY DEF RippleInv, TimesPast, PostFails, pageVars, RippleShapes
<1>3. NothingYet'
  BY DEF RippleInv, NothingYet, PostFails, pageVars
<1>4. PagePhases'
  BY DEF RippleInv, PagePhases, PostFails, pageVars
<1>5. EndedAreGone'
  BY DEF RippleInv, EndedAreGone, PostFails, pageVars, RippleShapes, Stored, ThreadIdle
<1>6. RemovedAreSilent'
  BY DEF RippleInv, RemovedAreSilent, PostFails, pageVars
<1>7. PageIsRight'
  BY DEF RippleInv, PageIsRight, PostFails, homeVars, pageVars, RippleShapes, Kinds, UpdateKinds,
         PostKinds, NothingYet, PagePhases, ListedRight, WillList, Coming, PostComes, UpdateComes,
         Burning, Overdue, Stored, ThreadIdle
<1>8. CountsToTheEnd'
  BY DEF RippleInv, CountsToTheEnd, PostFails, pageVars, RippleShapes, Stored, ThreadIdle
<1>9. CountsNoFurther'
  BY DEF RippleInv, CountsNoFurther, PostFails, pageVars
<1> QED
  BY <1>1, <1>2, <1>3, <1>4, <1>5, <1>6, <1>7, <1>8, <1>9 DEF RippleInv

\* What is posted revives the thread, or takes the place of an idle one.
LEMMA StoreRippleKeepsPage ==
    ASSUME RippleInv, NEW r \in Ripples, StoreRipple(r)
    PROVE  PageIsRight'
<1> USE DEF RippleInv, RippleShapes, NothingYet
<1>1. /\ response[r] = "none" /\ response'[r] = "live"
      /\ \A p \in Ripples \ {r} : response'[p] =
            IF ThreadIdle(activity) /\ Stored(p) THEN "dropped" ELSE response[p]
      /\ UNCHANGED <<today, step, fetched, onPage, alight>> /\ blurred \subseteq blurred'
      /\ unsent' = unsent \cup {Message("posted", r)} /\ storing \subseteq storing'
  BY DEF StoreRipple, Composed, DropIdle, Kinds
<1>2. Coming \subseteq Coming'
  BY <1>1 DEF Coming
<1>3. step # "closed" => PostComes(r)'
  <2>1. CASE step # "closed" /\ WriterOf[r] = Onlooker
    <3>1. Message("composed", r) \in Coming'
      BY <2>1 DEF StoreRipple, Composed, Coming
    <3>2. QED
      BY <3>1 DEF Message, PostComes, PostKinds
  <2>2. CASE WriterOf[r] # Onlooker
    <3>1. Message("posted", r) \in Coming'
      BY <2>2, <1>1 DEF Message, Coming
    <3>2. QED
      BY <3>1 DEF Message, PostComes, PostKinds
  <2>3. QED
    BY <2>1, <2>2
<1> SUFFICES ASSUME step = "open" \/ fetched.read # "nothing", ~burnt', NEW p \in Ripples \ blurred'
             PROVE  ListedRight(p)'
  BY <1>1 DEF PageIsRight
<1>4. CASE p = r
  BY <1>1, <1>3, <1>4 DEF ListedRight, WillList, PagePhases
<1>5. CASE p # r /\ burnt
  <2>1. blurred' = blurred \cup {q \in Ripples : (burnt \/ Overdue) /\ response[q] # "none"}
                           \cup (IF ThreadIdle(activity) THEN Unnoticed ELSE {})
    BY <1>5 DEF StoreRipple, Composed
  <2>2. response[p] = "none"
    BY <1>5, <2>1
  <2>3. QED
    BY <1>1, <1>5, <2>2 DEF ListedRight, WillList, Stored
<1>6. CASE p # r /\ ~burnt
  <2>1. ListedRight(p)
    BY <1>1, <1>6 DEF PageIsRight
  <2>2. (Burning /\ response[p] # "none") => Burning'
    BY <1>1, <1>6 DEF StoreRipple, Composed, Burning, Overdue
  <2>3. (PostComes(p) => PostComes(p)') /\ (UpdateComes(p) => UpdateComes(p)')
    BY <1>2 DEF PostComes, UpdateComes
  <2>4. CASE ThreadIdle(activity) /\ Stored(p)
    <3>1. response'[p] = "dropped" /\ p \notin Unnoticed
      BY <1>1, <1>6, <2>4 DEF StoreRipple, Composed
    <3>2. Burning
      BY <1>1, <1>6, <2>4, <3>1 DEF Unnoticed, Cascade, Burning
    <3>3. Burning'
      BY <2>2, <2>4, <3>2 DEF Stored
    <3>4. QED
      BY <3>1, <3>3 DEF ListedRight, Stored
  <2>5. CASE ~(ThreadIdle(activity) /\ Stored(p))
    <3>1. response'[p] = response[p] /\ WillList(p)' = WillList(p)
      BY <1>1, <1>6, <2>5 DEF WillList
    <3>2. Stored(p) => ~ThreadIdle(activity)
      BY <2>5
    <3>3. QED
      BY <1>1, <2>1, <2>2, <2>3, <3>1, <3>2 DEF ListedRight, Stored
  <2>6. QED
    BY <2>4, <2>5
<1>7. QED
  BY <1>4, <1>5, <1>6

LEMMA StoreRippleKeepsRipples ==
    ASSUME RippleInv, NEW r \in Ripples, StoreRipple(r)
    PROVE  RippleInv'
<1> USE RipplesAssumption DEF RippleInv
<1>0. posting[r] \in Nat \ {0} /\ posting[r] <= today
  BY DEF RippleShapes, TimesPast, StoreRipple
<1>1. RippleShapes'
  <2>1. response' \in [Ripples -> Kinds \cup {"dropped"}]
    BY DEF RippleShapes, StoreRipple, DropIdle, Kinds
  <2>2. activity' \in Nat /\ posting' \in [Ripples -> Nat]
    BY DEF RippleShapes, StoreRipple
  <2>3. unsent' \subseteq [kind : {"posted", "updated"}, ripple : Ripples]
    BY DEF RippleShapes, StoreRipple, Message
  <2>4. /\ storing' \subseteq [kind : PostKinds \cup UpdateKinds, ripple : Ripples]
        /\ deadline' \in Nat /\ burnt' \in BOOLEAN
    <3>1. Message("composed", r) \in [kind : PostKinds \cup UpdateKinds, ripple : Ripples]
      BY DEF Message, PostKinds
    <3>2. /\ storing' \in {storing, storing \cup {Message("composed", r)}}
          /\ deadline' \in {deadline, today + TTL} /\ burnt' \in {burnt, FALSE}
      BY DEF StoreRipple, Composed
    <3>3. storing' \subseteq [kind : PostKinds \cup UpdateKinds, ripple : Ripples]
      BY <3>1, <3>2 DEF RippleShapes
    <3>4. today + TTL \in Nat
      BY DEF RippleShapes
    <3>5. QED
      BY <3>2, <3>3, <3>4 DEF RippleShapes
  <2>5. slow' \in BOOLEAN /\ prolonged' \in BOOLEAN
    BY DEF StoreRipple, Composed, RippleShapes
  <2>6. QED
    BY <2>1, <2>2, <2>3, <2>4, <2>5 DEF RippleShapes, StoreRipple
<1>2. TimesPast'
  BY DEF TimesPast, StoreRipple, RippleShapes
<1>3. NothingYet'
  BY DEF NothingYet, StoreRipple, Composed, DropIdle, Message, RippleShapes, UpdateKinds, Stored
<1>4. PagePhases'
  BY DEF PagePhases, StoreRipple, Composed
<1>5. EndedAreGone'
  BY DEF EndedAreGone, StoreRipple, DropIdle, NothingYet, RippleShapes, Stored
<1>6. RemovedAreSilent'
  BY DEF RemovedAreSilent, StoreRipple, DropIdle, RippleShapes, Stored
<1>7. PageIsRight'
  BY StoreRippleKeepsPage
<1>8. CountsToTheEnd'
  <2>1. CASE WriterOf[r] = Onlooker /\ step # "closed"
    <3>1. /\ deadline' = today + TTL /\ ~burnt' /\ activity' = posting[r]
          /\ UNCHANGED <<today, alight, fetched>>
          /\ prolonged' <=> (prolonged \/ alight \/ fetched.read # "nothing")
      BY <2>1 DEF StoreRipple, Composed
    <3>2. QED
      BY <1>0, <3>1 DEF CountsToTheEnd, RippleShapes
  <2>2. CASE ~(WriterOf[r] = Onlooker /\ step # "closed")
    <3>1. /\ UNCHANGED <<deadline, burnt, alight, fetched>>
          /\ prolonged' <=> (prolonged \/ step # "closed")
      BY <2>2 DEF StoreRipple, Composed
    <3>2. QED
      BY <3>1 DEF CountsToTheEnd, PagePhases
  <2>3. QED
    BY <2>1, <2>2
<1>9. CountsNoFurther'
  <2>1. /\ activity' = posting[r] /\ UNCHANGED <<today, fetched>>
        /\ slow' <=> (slow \/ posting[r] < today)
        /\ deadline' \in {deadline, today + TTL}
    BY DEF StoreRipple, Composed
  <2>2. ~slow' => ~slow /\ activity' = today /\ activity' # 0
    BY <1>0, <2>1 DEF RippleShapes
  <2>3. QED
    BY <2>1, <2>2 DEF CountsNoFurther, RippleShapes, TimesPast
<1>10. QED
  BY <1>1, <1>2, <1>3, <1>4, <1>5, <1>6, <1>7, <1>8, <1>9

\* What is deleted before the end of the thread is told to the page.
LEMMA DeletedIsListedRight ==
    ASSUME RippleInv, NEW rs \in SUBSET Ripples,
           \A r \in rs : response[r] = "live", response' = SoftDeleted(rs),
           UNCHANGED <<today, activity, step, fetched, onPage, deadline, burnt, alight, blurred>>,
           unsent \subseteq unsent', storing \subseteq storing',
           \A r \in rs : ThreadIdle(activity) \/ step = "closed" \/ UpdateComes(r)'
    PROVE  PageIsRight'
<1> USE DEF RippleInv, RippleShapes
<1>1. /\ \A p \in Ripples : response'[p] = IF p \in rs THEN "deleted" ELSE response[p]
      /\ Coming \subseteq Coming'
  BY DEF SoftDeleted, Coming
<1> SUFFICES ASSUME step = "open" \/ fetched.read # "nothing", ~burnt, NEW p \in Ripples \ blurred
             PROVE  ListedRight(p)'
  BY DEF PageIsRight
<1>2. ListedRight(p) /\ step # "closed"
  BY DEF PageIsRight, PagePhases
<1>3. /\ WillList(p)' = WillList(p) /\ (ThreadIdle(activity)' <=> ThreadIdle(activity))
      /\ Burning' <=> Burning
      /\ (PostComes(p) => PostComes(p)') /\ (UpdateComes(p) => UpdateComes(p)')
  BY <1>1 DEF WillList, ThreadIdle, Burning, Overdue, PostComes, UpdateComes
<1>4. CASE p \in rs
  BY <1>1, <1>2, <1>3, <1>4 DEF ListedRight, Stored
<1>5. CASE p \notin rs
  BY <1>1, <1>2, <1>3, <1>5 DEF ListedRight, Stored
<1>6. QED
  BY <1>4, <1>5

LEMMA DeleteRippleKeepsPage ==
    ASSUME RippleInv, NEW r \in Ripples, DeleteRipple(r)
    PROVE  PageIsRight'
<1>1. response[r] = "live" /\ response' = SoftDeleted({r})
  BY DEF DeleteRipple, Listed, RippleInv, RippleShapes
<1>2. step = "closed" \/ UpdateComes(r)'
  <2>1. CASE WriterOf[r] = Onlooker /\ step # "closed"
    <3>1. Message("patched", r) \in Coming'
      BY <2>1 DEF DeleteRipple, Coming
    <3>2. QED
      BY <3>1 DEF Message, UpdateComes, UpdateKinds
  <2>2. CASE WriterOf[r] # Onlooker
    <3>1. Message("updated", r) \in Coming'
      BY <2>2 DEF DeleteRipple, Coming, Message
    <3>2. QED
      BY <3>1 DEF Message, UpdateComes, UpdateKinds
  <2>3. QED
    BY <2>1, <2>2
<1>3. QED
  BY <1>1, <1>2, DeletedIsListedRight DEF DeleteRipple

LEMMA RemoveWriterKeepsPage ==
    ASSUME RippleInv, NEW w \in Commenters, RemoveWriter(w)
    PROVE  PageIsRight'
<1>1. \A r \in Tombstoned(w) : response[r] = "live" /\ WriterOf[r] # Onlooker /\ r \in Ripples
  BY DEF RemoveWriter, Tombstoned
<1>2. \A r \in Tombstoned(w) : ThreadIdle(activity) \/ UpdateComes(r)'
  <2> SUFFICES ASSUME NEW r \in Tombstoned(w), ~ThreadIdle(activity)
               PROVE  UpdateComes(r)'
    OBVIOUS
  <2>1. Message("updated", r) \in Coming'
    BY <1>1 DEF RemoveWriter, ListAccountRemovalRipples, Coming, Message
  <2>2. QED
    BY <2>1 DEF Message, UpdateComes, UpdateKinds
<1>3. QED
  BY <1>1, <1>2, DeletedIsListedRight DEF RemoveWriter, pageVars

LEMMA DeleteRippleKeepsRipples ==
    ASSUME RippleInv, NEW r \in Ripples, DeleteRipple(r)
    PROVE  RippleInv'
<1> USE RipplesAssumption
<1>1. RippleShapes'
  BY DEF RippleInv, RippleShapes, DeleteRipple, homeVars, pageVars, SoftDeleted, Listed, Message,
         Kinds, PostKinds, UpdateKinds, Stored
<1>2. TimesPast'
  BY DEF RippleInv, TimesPast, DeleteRipple
<1>3. NothingYet'
  BY DEF RippleInv, NothingYet, DeleteRipple, RippleShapes, SoftDeleted, Listed, Message
<1>4. PagePhases'
  BY DEF RippleInv, PagePhases, DeleteRipple
<1>5. EndedAreGone'
  BY DEF RippleInv, EndedAreGone, DeleteRipple, RippleShapes, SoftDeleted, Listed, Message
<1>6. RemovedAreSilent'
  BY DEF RippleInv, RemovedAreSilent, DeleteRipple, SoftDeleted, Listed, Message
<1>7. PageIsRight'
  BY DeleteRippleKeepsPage
<1>8. CountsToTheEnd'
  BY DEF RippleInv, CountsToTheEnd, DeleteRipple, SoftDeleted, Listed, Message
<1>9. CountsNoFurther'
  BY DEF RippleInv, CountsNoFurther, DeleteRipple
<1> QED
  BY <1>1, <1>2, <1>3, <1>4, <1>5, <1>6, <1>7, <1>8, <1>9 DEF RippleInv

LEMMA RemoveWriterKeepsRipples ==
    ASSUME RippleInv, NEW w \in Commenters, RemoveWriter(w)
    PROVE  RippleInv'
<1> USE RipplesAssumption
<1>1. RippleShapes'
  BY DEF RippleInv, RippleShapes, RemoveWriter, homeVars, pageVars, SoftDeleted, Tombstoned,
         ListAccountRemovalRipples, Message, Kinds, PostKinds, UpdateKinds, Stored
<1>2. TimesPast'
  BY DEF RippleInv, TimesPast, RemoveWriter, pageVars
<1>3. NothingYet'
  BY DEF RippleInv, NothingYet, RemoveWriter, pageVars, RippleShapes, SoftDeleted, Tombstoned,
         ListAccountRemovalRipples, Message
<1>4. PagePhases'
  BY DEF RippleInv, PagePhases, RemoveWriter, pageVars
<1>5. EndedAreGone'
  BY DEF RippleInv, EndedAreGone, RemoveWriter, pageVars, RippleShapes, Stored, ThreadIdle,
         SoftDeleted, Tombstoned, ListAccountRemovalRipples, Message
<1>6. RemovedAreSilent'
  BY DEF RippleInv, RemovedAreSilent, RemoveWriter, pageVars, SoftDeleted, Tombstoned,
         ListAccountRemovalRipples, Message
<1>7. PageIsRight'
  BY RemoveWriterKeepsPage
<1>8. CountsToTheEnd'
  BY DEF RippleInv, CountsToTheEnd, RemoveWriter, pageVars, RippleShapes, Stored, ThreadIdle,
         SoftDeleted, Tombstoned, ListAccountRemovalRipples, Message
<1>9. CountsNoFurther'
  BY DEF RippleInv, CountsNoFurther, RemoveWriter, pageVars
<1> QED
  BY <1>1, <1>2, <1>3, <1>4, <1>5, <1>6, <1>7, <1>8, <1>9 DEF RippleInv

LEMMA CleanupKeepsRipples ==
    ASSUME RippleInv, Cleanup
    PROVE  RippleInv'
<1> USE RipplesAssumption
<1>1. RippleShapes'
  BY DEF RippleInv, RippleShapes, Cleanup, pageVars, DropIdle, Unnoticed, Cascade
<1>2. TimesPast'
  BY DEF RippleInv, TimesPast, Cleanup, pageVars, RippleShapes
<1>3. NothingYet'
  BY DEF RippleInv, NothingYet, Cleanup, pageVars, RippleShapes, Stored, ThreadIdle, DropIdle,
         Unnoticed, Cascade
<1>4. PagePhases'
  BY DEF RippleInv, PagePhases, Cleanup, pageVars
<1>5. EndedAreGone'
  BY DEF RippleInv, EndedAreGone, Cleanup, pageVars, RippleShapes, DropIdle, Unnoticed, Cascade
<1>6. RemovedAreSilent'
  BY DEF RippleInv, RemovedAreSilent, Cleanup, pageVars, DropIdle, Unnoticed, Cascade
<1>7. PageIsRight'
  BY DEF RippleInv, PageIsRight, Cleanup, homeVars, pageVars, DropIdle, Unnoticed, Cascade,
         RippleShapes, Kinds, UpdateKinds, PostKinds, NothingYet, PagePhases, ListedRight, WillList,
         Coming, PostComes, UpdateComes, Burning, Overdue, Stored, ThreadIdle
<1>8. CountsToTheEnd'
  BY DEF RippleInv, CountsToTheEnd, Cleanup, pageVars, RippleShapes, Stored, ThreadIdle, DropIdle,
         Unnoticed, Cascade
<1>9. CountsNoFurther'
  BY DEF RippleInv, CountsNoFurther, Cleanup, pageVars, RippleShapes, Stored, ThreadIdle, DropIdle,
         Unnoticed, Cascade
<1> QED
  BY <1>1, <1>2, <1>3, <1>4, <1>5, <1>6, <1>7, <1>8, <1>9 DEF RippleInv

LEMMA PassTimeKeepsRipples ==
    ASSUME RippleInv, PassTime
    PROVE  RippleInv'
<1> USE RipplesAssumption
<1>1. RippleShapes'
  BY DEF RippleInv, RippleShapes, PassTime, pageVars, Cascade
<1>2. TimesPast'
  BY DEF RippleInv, TimesPast, PassTime, pageVars, RippleShapes
<1>3. NothingYet'
  BY DEF RippleInv, NothingYet, PassTime, pageVars, RippleShapes, Stored, ThreadIdle, Cascade
<1>4. PagePhases'
  BY DEF RippleInv, PagePhases, PassTime, pageVars
<1>5. EndedAreGone'
  BY DEF RippleInv, EndedAreGone, PassTime, pageVars, RippleShapes, Stored, ThreadIdle, Cascade
<1>6. RemovedAreSilent'
  BY DEF RippleInv, RemovedAreSilent, PassTime, pageVars
<1>7. PageIsRight'
  BY DEF RippleInv, PageIsRight, PassTime, homeVars, pageVars, Cascade, RippleShapes, Kinds,
         UpdateKinds, PostKinds, NothingYet, PagePhases, ListedRight, WillList, Coming, PostComes,
         UpdateComes, Burning, Overdue, Stored, ThreadIdle
<1>8. CountsToTheEnd'
  BY DEF RippleInv, CountsToTheEnd, PassTime, pageVars, RippleShapes, Stored, ThreadIdle, Cascade
<1>9. CountsNoFurther'
  BY DEF RippleInv, CountsNoFurther, PassTime, pageVars, RippleShapes
<1> QED
  BY <1>1, <1>2, <1>3, <1>4, <1>5, <1>6, <1>7, <1>8, <1>9 DEF RippleInv

LEMMA OpenPageKeepsRipples ==
    ASSUME RippleInv, OpenPage
    PROVE  RippleInv'
<1> USE RipplesAssumption
<1>1. RippleShapes'
  BY DEF RippleInv, RippleShapes, OpenPage, homeVars
<1>2. TimesPast'
  BY DEF RippleInv, TimesPast, OpenPage, homeVars
<1>3. NothingYet'
  BY DEF RippleInv, NothingYet, OpenPage, homeVars
<1>4. PagePhases'
  BY DEF RippleInv, PagePhases, OpenPage, homeVars
<1>5. EndedAreGone'
  BY DEF RippleInv, EndedAreGone, OpenPage, homeVars, RippleShapes, Stored, ThreadIdle
<1>6. RemovedAreSilent'
  BY DEF RippleInv, RemovedAreSilent, OpenPage, homeVars
<1>7. PageIsRight'
  BY DEF RippleInv, PageIsRight, OpenPage, homeVars, pageVars, RippleShapes, Kinds, UpdateKinds,
         PostKinds, NothingYet, PagePhases, ListedRight, WillList, Coming, PostComes, UpdateComes,
         Burning, Overdue, Stored, ThreadIdle
<1>8. CountsToTheEnd'
  BY DEF RippleInv, CountsToTheEnd, OpenPage, homeVars, RippleShapes, Stored, ThreadIdle
<1>9. CountsNoFurther'
  BY DEF RippleInv, CountsNoFurther, OpenPage, homeVars
<1> QED
  BY <1>1, <1>2, <1>3, <1>4, <1>5, <1>6, <1>7, <1>8, <1>9 DEF RippleInv

LEMMA ClosePageKeepsRipples ==
    ASSUME RippleInv, ClosePage
    PROVE  RippleInv'
<1> USE RipplesAssumption
<1>1. RippleShapes'
  BY DEF RippleInv, RippleShapes, ClosePage, homeVars, pageVars, Blank, NotFetched, Kinds,
         PostKinds, UpdateKinds, Stored
<1>2. TimesPast'
  BY DEF RippleInv, TimesPast, ClosePage, homeVars, RippleShapes, Blank, NotFetched
<1>3. NothingYet'
  BY DEF RippleInv, NothingYet, ClosePage, homeVars, Blank, NotFetched
<1>4. PagePhases'
  BY DEF RippleInv, PagePhases, ClosePage, homeVars, Blank, NotFetched
<1>5. EndedAreGone'
  BY DEF RippleInv, EndedAreGone, ClosePage, homeVars, RippleShapes, Stored, ThreadIdle, Blank,
         NotFetched
<1>6. RemovedAreSilent'
  BY DEF RippleInv, RemovedAreSilent, ClosePage, homeVars
<1>7. PageIsRight'
  BY DEF RippleInv, PageIsRight, ClosePage, homeVars, Blank, NotFetched
<1>8. CountsToTheEnd'
  BY DEF RippleInv, CountsToTheEnd, ClosePage, homeVars, Blank, NotFetched
<1>9. CountsNoFurther'
  BY DEF RippleInv, CountsNoFurther, ClosePage, homeVars, Blank, NotFetched
<1> QED
  BY <1>1, <1>2, <1>3, <1>4, <1>5, <1>6, <1>7, <1>8, <1>9 DEF RippleInv

LEMMA SubscribeReedKeepsRipples ==
    ASSUME RippleInv, SubscribeReed
    PROVE  RippleInv'
<1> USE RipplesAssumption
<1>1. RippleShapes'
  BY DEF RippleInv, RippleShapes, SubscribeReed, homeVars
<1>2. TimesPast'
  BY DEF RippleInv, TimesPast, SubscribeReed, homeVars
<1>3. NothingYet'
  BY DEF RippleInv, NothingYet, SubscribeReed, homeVars
<1>4. PagePhases'
  BY DEF RippleInv, PagePhases, SubscribeReed, homeVars
<1>5. EndedAreGone'
  BY DEF RippleInv, EndedAreGone, SubscribeReed, homeVars, RippleShapes, Stored, ThreadIdle
<1>6. RemovedAreSilent'
  BY DEF RippleInv, RemovedAreSilent, SubscribeReed, homeVars
<1>7. PageIsRight'
  BY DEF RippleInv, PageIsRight, SubscribeReed, homeVars, pageVars, RippleShapes, Kinds,
         UpdateKinds, PostKinds, NothingYet, PagePhases, ListedRight, WillList, Coming, PostComes,
         UpdateComes, Burning, Overdue, Stored, ThreadIdle
<1>8. CountsToTheEnd'
  BY DEF RippleInv, CountsToTheEnd, SubscribeReed, homeVars, RippleShapes, Stored, ThreadIdle
<1>9. CountsNoFurther'
  BY DEF RippleInv, CountsNoFurther, SubscribeReed, homeVars
<1> QED
  BY <1>1, <1>2, <1>3, <1>4, <1>5, <1>6, <1>7, <1>8, <1>9 DEF RippleInv

LEMMA ReadListKeepsRipples ==
    ASSUME RippleInv, ReadList
    PROVE  RippleInv'
<1> USE RipplesAssumption
<1>1. RippleShapes'
  BY DEF RippleInv, RippleShapes, ReadList, homeVars, pageVars, Listed, Kinds, PostKinds,
         UpdateKinds, Stored
<1>2. TimesPast'
  BY DEF RippleInv, TimesPast, ReadList, homeVars, RippleShapes
<1>3. NothingYet'
  BY DEF RippleInv, NothingYet, ReadList, homeVars, Listed
<1>4. PagePhases'
  BY DEF RippleInv, PagePhases, ReadList, homeVars
<1>5. EndedAreGone'
  BY DEF RippleInv, EndedAreGone, ReadList, homeVars, RippleShapes, Stored, ThreadIdle, Listed
<1>6. RemovedAreSilent'
  BY DEF RippleInv, RemovedAreSilent, ReadList, homeVars
<1>7. PageIsRight'
  BY DEF RippleInv, PageIsRight, ReadList, homeVars, pageVars, Listed, RippleShapes, Kinds,
         UpdateKinds, PostKinds, NothingYet, PagePhases, ListedRight, WillList, Coming, PostComes,
         UpdateComes, Burning, Overdue, Stored, ThreadIdle
<1>8. CountsToTheEnd'
  BY DEF RippleInv, CountsToTheEnd, ReadList, homeVars, RippleShapes, Stored, ThreadIdle, Listed
<1>9. CountsNoFurther'
  BY DEF RippleInv, CountsNoFurther, ReadList, homeVars
<1> QED
  BY <1>1, <1>2, <1>3, <1>4, <1>5, <1>6, <1>7, <1>8, <1>9 DEF RippleInv

LEMMA ReadActivityKeepsRipples ==
    ASSUME RippleInv, ReadActivity
    PROVE  RippleInv'
<1> USE RipplesAssumption
<1>1. RippleShapes'
  BY DEF RippleInv, RippleShapes, ReadActivity, homeVars, pageVars, Kinds, PostKinds, UpdateKinds,
         Stored
<1>2. TimesPast'
  BY DEF RippleInv, TimesPast, ReadActivity, homeVars, RippleShapes
<1>3. NothingYet'
  BY DEF RippleInv, NothingYet, ReadActivity, homeVars
<1>4. PagePhases'
  BY DEF RippleInv, PagePhases, ReadActivity, homeVars
<1>5. EndedAreGone'
  BY DEF RippleInv, EndedAreGone, ReadActivity, homeVars, RippleShapes, Stored, ThreadIdle
<1>6. RemovedAreSilent'
  BY DEF RippleInv, RemovedAreSilent, ReadActivity, homeVars
<1>7. PageIsRight'
  BY DEF RippleInv, PageIsRight, ReadActivity, homeVars, pageVars, RippleShapes, Kinds, UpdateKinds,
         PostKinds, NothingYet, PagePhases, ListedRight, WillList, Coming, PostComes, UpdateComes,
         Burning, Overdue, Stored, ThreadIdle
<1>8. CountsToTheEnd'
  BY DEF RippleInv, CountsToTheEnd, ReadActivity, homeVars, RippleShapes, Stored, ThreadIdle
<1>9. CountsNoFurther'
  BY DEF RippleInv, CountsNoFurther, ReadActivity, homeVars, RippleShapes
<1> QED
  BY <1>1, <1>2, <1>3, <1>4, <1>5, <1>6, <1>7, <1>8, <1>9 DEF RippleInv

LEMMA ShowListKeepsRipples ==
    ASSUME RippleInv, ShowList
    PROVE  RippleInv'
<1> USE RipplesAssumption
<1>1. RippleShapes'
  BY DEF RippleInv, RippleShapes, ShowList, homeVars, pageVars, NotFetched, Blank, Kinds, PostKinds,
         UpdateKinds, Stored
<1>2. TimesPast'
  BY DEF RippleInv, TimesPast, ShowList, homeVars, RippleShapes, NotFetched, Blank
<1>3. NothingYet'
  BY DEF RippleInv, NothingYet, ShowList, homeVars, NotFetched, Blank
<1>4. PagePhases'
  BY DEF RippleInv, PagePhases, ShowList, homeVars, NotFetched, Blank
<1>5. EndedAreGone'
  BY DEF RippleInv, EndedAreGone, ShowList, homeVars, RippleShapes, Stored, ThreadIdle, NotFetched,
         Blank
<1>6. RemovedAreSilent'
  BY DEF RippleInv, RemovedAreSilent, ShowList, homeVars
<1>7. PageIsRight'
  BY DEF RippleInv, PageIsRight, ShowList, homeVars, pageVars, NotFetched, Blank, RippleShapes,
         Kinds, UpdateKinds, PostKinds, NothingYet, PagePhases, ListedRight, WillList, Coming,
         PostComes, UpdateComes, Burning, Overdue, Stored, ThreadIdle
<1>8. CountsToTheEnd'
  BY DEF RippleInv, CountsToTheEnd, ShowList, homeVars, RippleShapes, Stored, ThreadIdle,
         NotFetched, Blank
<1>9. CountsNoFurther'
  BY DEF RippleInv, CountsNoFurther, ShowList, homeVars, RippleShapes, NotFetched, Blank
<1> QED
  BY <1>1, <1>2, <1>3, <1>4, <1>5, <1>6, <1>7, <1>8, <1>9 DEF RippleInv

LEMMA AnnounceKeepsRipples ==
    ASSUME RippleInv, NEW m \in unsent, Announce(m)
    PROVE  RippleInv'
<1> USE RipplesAssumption
<1>1. RippleShapes'
  BY DEF RippleInv, RippleShapes, Announce, homeVars, pageVars, Told, Takes, Kinds, PostKinds,
         UpdateKinds, Stored
<1>2. TimesPast'
  BY DEF RippleInv, TimesPast, Announce, homeVars
<1>3. NothingYet'
  BY DEF RippleInv, NothingYet, Announce, homeVars
<1>4. PagePhases'
  BY DEF RippleInv, PagePhases, Announce, homeVars, Told, Takes
<1>5. EndedAreGone'
  BY DEF RippleInv, EndedAreGone, Announce, homeVars, RippleShapes, Stored, ThreadIdle, Told, Takes
<1>6. RemovedAreSilent'
  BY DEF RippleInv, RemovedAreSilent, Announce, homeVars
<1>7. PageIsRight'
  BY DEF RippleInv, PageIsRight, Announce, homeVars, pageVars, Told, Takes, RippleShapes, Kinds,
         UpdateKinds, PostKinds, NothingYet, PagePhases, ListedRight, WillList, Coming, PostComes,
         UpdateComes, Burning, Overdue, Stored, ThreadIdle
<1>8. CountsToTheEnd'
  BY DEF RippleInv, CountsToTheEnd, Announce, homeVars, RippleShapes, Stored, ThreadIdle, Told,
         Takes
<1>9. CountsNoFurther'
  BY DEF RippleInv, CountsNoFurther, Announce, homeVars
<1> QED
  BY <1>1, <1>2, <1>3, <1>4, <1>5, <1>6, <1>7, <1>8, <1>9 DEF RippleInv

LEMMA HandlePostedKeepsRipples ==
    ASSUME RippleInv, NEW m \in storing, HandlePosted(m)
    PROVE  RippleInv'
<1> USE RipplesAssumption
<1>1. RippleShapes'
  BY DEF RippleInv, RippleShapes, HandlePosted, homeVars, pageVars, ShowPosted, Overwritten, Kinds,
         PostKinds, UpdateKinds, Stored
<1>2. TimesPast'
  BY DEF RippleInv, TimesPast, HandlePosted, homeVars
<1>3. NothingYet'
  BY DEF RippleInv, NothingYet, HandlePosted, homeVars, ShowPosted, Overwritten
<1>4. PagePhases'
  BY DEF RippleInv, PagePhases, HandlePosted, homeVars
<1>5. EndedAreGone'
  BY DEF RippleInv, EndedAreGone, HandlePosted, homeVars, RippleShapes, Stored, ThreadIdle,
         ShowPosted, Overwritten
<1>6. RemovedAreSilent'
  BY DEF RippleInv, RemovedAreSilent, HandlePosted, homeVars
<1>7. PageIsRight'
  BY DEF RippleInv, PageIsRight, HandlePosted, homeVars, pageVars, ShowPosted, Overwritten,
         RippleShapes, Kinds, UpdateKinds, PostKinds, NothingYet, PagePhases, ListedRight, WillList,
         Coming, PostComes, UpdateComes, Burning, Overdue, Stored, ThreadIdle
<1>8. CountsToTheEnd'
  BY DEF RippleInv, CountsToTheEnd, HandlePosted, homeVars, RippleShapes, Stored, ThreadIdle,
         ShowPosted, Overwritten
<1>9. CountsNoFurther'
  BY DEF RippleInv, CountsNoFurther, HandlePosted, homeVars
<1> QED
  BY <1>1, <1>2, <1>3, <1>4, <1>5, <1>6, <1>7, <1>8, <1>9 DEF RippleInv

LEMMA HandleUpdatedKeepsRipples ==
    ASSUME RippleInv, NEW m \in storing, HandleUpdated(m)
    PROVE  RippleInv'
<1> USE RipplesAssumption
<1>1. RippleShapes'
  BY DEF RippleInv, RippleShapes, HandleUpdated, homeVars, pageVars, ShowUpdated, Overwritten,
         Kinds, PostKinds, UpdateKinds, Stored
<1>2. TimesPast'
  BY DEF RippleInv, TimesPast, HandleUpdated, homeVars
<1>3. NothingYet'
  BY DEF RippleInv, NothingYet, HandleUpdated, homeVars, ShowUpdated, Overwritten
<1>4. PagePhases'
  BY DEF RippleInv, PagePhases, HandleUpdated, homeVars
<1>5. EndedAreGone'
  BY DEF RippleInv, EndedAreGone, HandleUpdated, homeVars, RippleShapes, Stored, ThreadIdle,
         ShowUpdated, Overwritten
<1>6. RemovedAreSilent'
  BY DEF RippleInv, RemovedAreSilent, HandleUpdated, homeVars
<1>7. PageIsRight'
  BY DEF RippleInv, PageIsRight, HandleUpdated, homeVars, pageVars, ShowUpdated, Overwritten,
         RippleShapes, Kinds, UpdateKinds, PostKinds, NothingYet, PagePhases, ListedRight, WillList,
         Coming, PostComes, UpdateComes, Burning, Overdue, Stored, ThreadIdle
<1>8. CountsToTheEnd'
  BY DEF RippleInv, CountsToTheEnd, HandleUpdated, homeVars, RippleShapes, Stored, ThreadIdle,
         ShowUpdated, Overwritten
<1>9. CountsNoFurther'
  BY DEF RippleInv, CountsNoFurther, HandleUpdated, homeVars
<1> QED
  BY <1>1, <1>2, <1>3, <1>4, <1>5, <1>6, <1>7, <1>8, <1>9 DEF RippleInv

LEMMA TriggerExpiryKeepsRipples ==
    ASSUME RippleInv, TriggerExpiry
    PROVE  RippleInv'
<1> USE RipplesAssumption
<1>1. RippleShapes'
  BY DEF RippleInv, RippleShapes, TriggerExpiry, homeVars
<1>2. TimesPast'
  BY DEF RippleInv, TimesPast, TriggerExpiry, homeVars
<1>3. NothingYet'
  BY DEF RippleInv, NothingYet, TriggerExpiry, homeVars
<1>4. PagePhases'
  BY DEF RippleInv, PagePhases, TriggerExpiry, homeVars, Overdue
<1>5. EndedAreGone'
  BY DEF RippleInv, EndedAreGone, TriggerExpiry, homeVars, RippleShapes, Stored, ThreadIdle, Overdue
<1>6. RemovedAreSilent'
  BY DEF RippleInv, RemovedAreSilent, TriggerExpiry, homeVars
<1>7. PageIsRight'
  BY DEF RippleInv, PageIsRight, TriggerExpiry, homeVars, pageVars, Overdue, RippleShapes, Kinds,
         UpdateKinds, PostKinds, NothingYet, PagePhases, ListedRight, WillList, Coming, PostComes,
         UpdateComes, Burning, Stored, ThreadIdle
<1>8. CountsToTheEnd'
  BY DEF RippleInv, CountsToTheEnd, TriggerExpiry, homeVars, RippleShapes, Stored, ThreadIdle,
         Overdue
<1>9. CountsNoFurther'
  BY DEF RippleInv, CountsNoFurther, TriggerExpiry, homeVars
<1> QED
  BY <1>1, <1>2, <1>3, <1>4, <1>5, <1>6, <1>7, <1>8, <1>9 DEF RippleInv

LEMMA BurnAwayKeepsRipples ==
    ASSUME RippleInv, BurnAway
    PROVE  RippleInv'
<1> USE RipplesAssumption
<1>1. RippleShapes'
  BY DEF RippleInv, RippleShapes, BurnAway, homeVars, pageVars, Blank, Kinds, PostKinds,
         UpdateKinds, Stored
<1>2. TimesPast'
  BY DEF RippleInv, TimesPast, BurnAway, homeVars
<1>3. NothingYet'
  BY DEF RippleInv, NothingYet, BurnAway, homeVars, Blank
<1>4. PagePhases'
  BY DEF RippleInv, PagePhases, BurnAway, homeVars
<1>5. EndedAreGone'
  BY DEF RippleInv, EndedAreGone, BurnAway, homeVars, RippleShapes, Stored, ThreadIdle, Blank
<1>6. RemovedAreSilent'
  BY DEF RippleInv, RemovedAreSilent, BurnAway, homeVars
<1>7. PageIsRight'
  BY DEF RippleInv, PageIsRight, BurnAway, homeVars
<1>8. CountsToTheEnd'
  BY DEF RippleInv, CountsToTheEnd, BurnAway, homeVars, RippleShapes, Stored, ThreadIdle, Blank
<1>9. CountsNoFurther'
  BY DEF RippleInv, CountsNoFurther, BurnAway, homeVars
<1> QED
  BY <1>1, <1>2, <1>3, <1>4, <1>5, <1>6, <1>7, <1>8, <1>9 DEF RippleInv

-----------------------------------------------------------------------------
LEMMA RipplesStart == RipplesInit => RippleInv
<1> SUFFICES ASSUME RipplesInit PROVE RippleInv
  OBVIOUS
<1> USE RipplesAssumption DEF RipplesInit, Blank, NotFetched
<1>1. RippleShapes
  BY DEF RippleShapes, Kinds
<1>2. TimesPast /\ NothingYet /\ PagePhases
  BY DEF TimesPast, NothingYet, PagePhases
<1>3. EndedAreGone /\ RemovedAreSilent /\ PageIsRight
  BY DEF EndedAreGone, RemovedAreSilent, PageIsRight
<1>4. CountsToTheEnd /\ CountsNoFurther
  BY DEF CountsToTheEnd, CountsNoFurther
<1>5. QED
  BY <1>1, <1>2, <1>3, <1>4 DEF RippleInv

LEMMA RipplesGoOn == RippleInv /\ [RipplesNext]_rippleVars => RippleInv'
<1> SUFFICES ASSUME RippleInv, [RipplesNext]_rippleVars PROVE RippleInv'
  OBVIOUS
<1>1. CASE UNCHANGED rippleVars
  <2> USE <1>1 DEF RippleInv, rippleVars, homeVars, pageVars
  <2>1. RippleShapes' /\ TimesPast'
    BY DEF RippleShapes, TimesPast
  <2>2. NothingYet' /\ PagePhases'
    BY DEF NothingYet, PagePhases
  <2>3. EndedAreGone' /\ RemovedAreSilent'
    BY DEF EndedAreGone, RemovedAreSilent, ThreadIdle, Stored
  <2>4. PageIsRight'
    BY DEF PageIsRight, ListedRight, WillList, Coming, PostComes, UpdateComes, Burning, Overdue,
           Stored, ThreadIdle
  <2>5. CountsToTheEnd' /\ CountsNoFurther'
    BY DEF CountsToTheEnd, CountsNoFurther, ThreadIdle
  <2>6. QED
    BY <2>1, <2>2, <2>3, <2>4, <2>5
<1>2. CASE \E r \in Ripples : PostRipple(r) \/ PostFails(r) \/ StoreRipple(r) \/ DeleteRipple(r)
  BY <1>2, PostRippleKeepsRipples, PostFailsKeepsRipples, StoreRippleKeepsRipples,
     DeleteRippleKeepsRipples
<1>3. CASE \E w \in Commenters : RemoveWriter(w)
  BY <1>3, RemoveWriterKeepsRipples
<1>4. CASE Cleanup \/ PassTime
  BY <1>4, CleanupKeepsRipples, PassTimeKeepsRipples
<1>5. CASE OpenPage \/ ClosePage \/ SubscribeReed
  BY <1>5, OpenPageKeepsRipples, ClosePageKeepsRipples, SubscribeReedKeepsRipples
<1>6. CASE ReadList \/ ReadActivity \/ ShowList
  BY <1>6, ReadListKeepsRipples, ReadActivityKeepsRipples, ShowListKeepsRipples
<1>7. CASE \E m \in unsent : Announce(m)
  BY <1>7, AnnounceKeepsRipples
<1>8. CASE \E m \in storing : HandlePosted(m) \/ HandleUpdated(m)
  BY <1>8, HandlePostedKeepsRipples, HandleUpdatedKeepsRipples
<1>9. CASE TriggerExpiry \/ BurnAway
  BY <1>9, TriggerExpiryKeepsRipples, BurnAwayKeepsRipples
<1>10. QED
  BY <1>1, <1>2, <1>3, <1>4, <1>5, <1>6, <1>7, <1>8, <1>9 DEF RipplesNext

\* With nothing under way, a page that will list what it should does list it.
LEMMA RipplesAreRight == RippleInv => RipplesHold
<1> SUFFICES ASSUME RippleInv PROVE RipplesHold
  OBVIOUS
<1> USE RipplesAssumption DEF RippleInv, RippleShapes
<1>1. GoneStaysGone
  BY DEF GoneStaysGone, EndedAreGone, Listed, Stored
<1>2. PageFollows
  <2> SUFFICES ASSUME step = "open", unsent = {}, storing = {}, ~Overdue, ~alight
               PROVE  /\ (~burnt /\ ~ThreadIdle(activity)) =>
                            \A r \in Ripples \ blurred : onPage[r] = Listed(r)
                      /\ burnt => ThreadIdle(activity) \/ prolonged
                      /\ (~burnt /\ ThreadIdle(activity)) => onPage = Blank \/ deadline = 0 \/ slow
    BY DEF PageFollows
  <2>1. ASSUME ~burnt, ~ThreadIdle(activity), NEW r \in Ripples \ blurred
        PROVE  onPage[r] = Listed(r)
    <3>1. ListedRight(r) /\ WillList(r) = onPage[r]
      BY <2>1 DEF PageIsRight, WillList, PagePhases
    <3>2. ~PostComes(r) /\ ~UpdateComes(r) /\ ~Burning
      BY DEF PostComes, UpdateComes, Coming, Burning
    <3>3. response[r] = "none" => onPage[r] = "none"
      BY DEF NothingYet
    <3>4. QED
      BY <2>1, <3>1, <3>2, <3>3 DEF ListedRight, Listed, Stored, Kinds
  <2>2. burnt => ThreadIdle(activity) \/ prolonged
    BY DEF CountsToTheEnd
  <2>3. ASSUME ~burnt, ThreadIdle(activity), deadline # 0
        PROVE  slow
    <3>1. deadline > today
      BY <2>3 DEF Overdue
    <3>2. QED
      BY <2>3, <3>1 DEF CountsNoFurther, ThreadIdle
  <2>4. QED
    BY <2>1, <2>2, <2>3
<1>3. QED
  BY <1>1, <1>2 DEF RipplesHold

(***************************************************************************)
(* What was idle once is not listed again, who was removed says nothing,   *)
(* and a page with nothing under way lists what its server lists and burns *)
(* when the thread is over (PostRipple, account_removal_ripple_trigger,    *)
(* RipplesSection), but for the responses and deadlines the histories name.*)
(***************************************************************************)
THEOREM RipplesAlwaysHold == RipplesSpec => []RipplesHold
<1>1. RipplesSpec => []RippleInv
  BY RipplesStart, RipplesGoOn, PTL DEF RipplesSpec
<1>2. QED
  BY <1>1, RipplesAreRight, PTL

-----------------------------------------------------------------------------
(* RecoveredAccounts: what a row and its collision say, among the rows of  *)
(* ids                                                                     *)

RowGood(us, co, fr, orph, ids, u) ==
    Has(us, u) =>
        /\ us[u].name # "none" => us[u].name = us[u].says
        /\ co[u] # NoCollision => us[u].name = "none" /\ co[u].name = us[u].says
        /\ us[u].name = "none" /\ u \notin orph => co[u] # NoCollision
        /\ us[u].name = "none" /\ us[u].says \notin fr =>
                \E h \in ids : /\ Has(us, h) /\ us[h].name = us[u].says
                               /\ ClaimRank(us[h].at) >= ClaimRank(us[u].at)

RowsGood(us, co, fr, orph, ids) == \A u \in ids : RowGood(us, co, fr, orph, ids, u)

HeldOnce(us, ids) ==
    \A u, v \in ids :
        Has(us, u) /\ Has(us, v) /\ u # v /\ us[u].name # "none" => us[u].name # us[v].name

\* Who has no row has lost no name.
NoRowNoCollision == \A u \in UserIDs : ~OnRecord(u) => collision[u] = NoCollision

AccountsInv ==
    /\ RecoveredTypeOK /\ NoRowNoCollision
    /\ RowsGood(userRow, collision, freed, orphaned, UserIDs)
    /\ HeldOnce(userRow, UserIDs)
    /\ ProfilesSettle

Accounts ==
    [key : KeyNests, name : Usernames \cup {"none"}, at : 0 .. Moment, says : Usernames,
     since : 1 .. Moment]
UserRows == [UserIDs -> {NoUser} \cup Accounts]
Collisions == [UserIDs -> {NoCollision} \cup [name : Usernames, winner : UserIDs]]
Present(us) == {id \in UserIDs : Has(us, id)}

-----------------------------------------------------------------------------
(* Lemmas                                                                  *)

\* A claim that outranks another is no worse, and one that does not is no better.
LEMMA RankedClaims ==
    ASSUME NEW a \in 0 .. Moment, NEW b \in 0 .. Moment
    PROVE  /\ ClaimRank(a) \in Nat
           /\ Outranks(a, b) => ClaimRank(a) >= ClaimRank(b)
           /\ ~Outranks(a, b) => ClaimRank(b) >= ClaimRank(a)
  BY RecoveredAssumption DEF ClaimRank, Outranks

LEMMA NotNone == /\ \A a \in Accounts : a # NoUser
                 /\ \A n, w : [name |-> n, winner |-> w] # NoCollision
                 /\ \A n \in Usernames : n # "none"
<1>1. \A a \in Accounts : a # NoUser
  <2> SUFFICES ASSUME NEW a \in Accounts, a = NoUser PROVE FALSE
    OBVIOUS
  <2>1. "at" \in DOMAIN a /\ "at" \notin DOMAIN NoUser
    BY DEF Accounts, NoUser
  <2>2. QED
    BY <2>1
<1>2. \A n, w : [name |-> n, winner |-> w] # NoCollision
  <2> SUFFICES ASSUME NEW n, NEW w, [name |-> n, winner |-> w] = NoCollision PROVE FALSE
    OBVIOUS
  <2>1. "name" \in DOMAIN [name |-> n, winner |-> w] /\ "name" \notin DOMAIN NoCollision
    BY DEF NoCollision
  <2>2. QED
    BY <2>1
<1>3. QED
  BY <1>1, <1>2, RecoveredAssumption

\* A claim leaves every row but the holder's as it was, and takes nobody's profile.
LEMMA ClaimKeepsShapes ==
    ASSUME NEW us \in UserRows, NEW co \in Collisions, NEW id \in UserIDs,
           NEW name \in Usernames, NEW at \in 0 .. Moment,
           NEW c, c = ClaimName(us, co, id, name, at)
    PROVE  /\ c.rows \in UserRows /\ c.lost \in Collisions /\ c.name \in Usernames \cup {"none"}
           /\ \A u \in UserIDs :
                /\ Has(c.rows, u) <=> Has(us, u)
                /\ c.rows[u] = NoUser <=> us[u] = NoUser
                /\ Has(us, u) => c.rows[u].at = us[u].at
                /\ us[u] # NoUser => c.rows[u].at = us[u].at /\ c.rows[u].key = us[u].key
                                     /\ c.rows[u].says = us[u].says /\ c.rows[u].since = us[u].since
           /\ \A u \in UserIDs \ {id} : us[u] = NoUser => c.lost[u] = co[u]
<1> DEFINE hs == HoldersOf(us, name, id)
<1>1. CASE hs = {}
  <2>1. c.name = name /\ c.rows = us /\ c.lost = [co EXCEPT ![id] = NoCollision]
    BY <1>1 DEF ClaimName
  <2>2. QED
    BY <2>1 DEF Collisions
<1>2. CASE hs # {}
  <2>1. PICK h \in hs : h = CHOOSE x \in hs : TRUE
    BY <1>2
  <2>2. /\ h \in UserIDs \ {id} /\ us[h] \in Accounts /\ us[h] # NoUser /\ us[h].name = name
        /\ Has(us, h)
    BY <2>1 DEF HoldersOf, Has, UserRows
  <2>3. CASE Outranks(at, us[h].at)
    <3>1. /\ c.name = name /\ c.rows = [us EXCEPT ![h].name = "none"]
          /\ c.lost = [Lose(co, h, name, id) EXCEPT ![id] = NoCollision]
      BY <1>2, <2>1, <2>3 DEF ClaimName
    <3>2. [us[h] EXCEPT !.name = "none"] \in Accounts
      BY <2>2 DEF Accounts
    <3>3. /\ c.rows[h] = [us[h] EXCEPT !.name = "none"] /\ c.rows[h] # NoUser
          /\ \A u \in UserIDs \ {h} : c.rows[u] = us[u]
          /\ c.rows \in UserRows
      BY <2>2, <3>1, <3>2, NotNone DEF UserRows
    <3>4. c.lost \in Collisions /\ \A u \in UserIDs \ {id, h} : c.lost[u] = co[u]
      BY <2>2, <3>1 DEF Lose, Collisions
    <3>5. /\ c.rows[h].at = us[h].at /\ c.rows[h].key = us[h].key
          /\ c.rows[h].says = us[h].says /\ c.rows[h].since = us[h].since
      BY <3>3, <2>2 DEF Accounts
    <3>6. QED
      BY <2>2, <3>1, <3>3, <3>4, <3>5 DEF Has
  <2>4. CASE ~Outranks(at, us[h].at)
    <3>1. c.name = "none" /\ c.rows = us /\ c.lost = Lose(co, id, name, h)
      BY <1>2, <2>1, <2>4 DEF ClaimName
    <3>2. QED
      BY <2>2, <3>1 DEF Lose, Collisions
  <2>5. QED
    BY <2>3, <2>4
<1>3. QED
  BY <1>1, <1>2

\* The rows once account a is written over claim c.
Written(c, id, a) == [c.rows EXCEPT ![id] = a]

\* What is written is one row, by the name that was claimed.
LEMMA ClaimWritten ==
    ASSUME NEW us \in UserRows, NEW co \in Collisions, NEW id \in UserIDs,
           NEW name \in Usernames, NEW at \in 0 .. Moment,
           NEW c, c = ClaimName(us, co, id, name, at),
           NEW a \in Accounts, NEW rows, rows = Written(c, id, a)
    PROVE  /\ rows \in UserRows /\ rows[id] = a
           /\ \A u \in UserIDs \ {id} : rows[u] = c.rows[u]
<1>1. c.rows \in UserRows
  BY ClaimKeepsShapes
<1>2. QED
  BY <1>1 DEF Written, UserRows

\* Whoever claims a name gets it, or knows to whom it was lost; so does who lost it.
LEMMA NameClaimed ==
    ASSUME NEW us \in UserRows, NEW co \in Collisions, NEW fr, NEW orph, NEW id \in UserIDs,
           NEW name \in Usernames, NEW at \in 0 .. Moment,
           RowsGood(us, co, fr, orph, UserIDs \ {id}),
           NEW c, c = ClaimName(us, co, id, name, at),
           NEW a \in Accounts, a.name = c.name, a.at = at, a.says = name, at > 0,
           NEW rows, rows = Written(c, id, a)
    PROVE  RowsGood(rows, c.lost, fr, orph, UserIDs)
<1> DEFINE hs == HoldersOf(us, name, id)
<1>a. /\ rows \in UserRows /\ rows[id] = a
      /\ \A u \in UserIDs \ {id} : rows[u] = c.rows[u]
  BY ClaimWritten
<1>b. /\ rows[id] \in Accounts /\ rows[id].name = c.name /\ rows[id].at = at
      /\ rows[id].says = name /\ Has(rows, id)
  BY <1>a, NotNone DEF Has
<1>0. \A u \in UserIDs \ {id} : RowGood(us, co, fr, orph, UserIDs \ {id}, u)
  BY DEF RowsGood
<1>1. CASE hs = {}
  <2>1. c.name = name /\ c.rows = us /\ c.lost = [co EXCEPT ![id] = NoCollision]
    BY <1>1 DEF ClaimName
  <2>2. \A u \in UserIDs \ {id} : rows[u] = us[u] /\ c.lost[u] = co[u]
    BY <1>a, <2>1 DEF Collisions
  <2>3. ASSUME NEW u \in UserIDs \ {id} PROVE RowGood(rows, c.lost, fr, orph, UserIDs, u)
    BY <1>0, <2>2, <2>3 DEF RowGood, Has
  <2>4. RowGood(rows, c.lost, fr, orph, UserIDs, id)
    BY <1>a, <2>1, NotNone DEF RowGood, Collisions
  <2>5. QED
    BY <2>3, <2>4 DEF RowsGood
<1>2. CASE hs # {}
  <2>1. PICK h \in hs : h = CHOOSE x \in hs : TRUE
    BY <1>2
  <2>2. /\ h \in UserIDs \ {id} /\ us[h] \in Accounts /\ us[h].name = name /\ Has(us, h)
        /\ us[h].at \in 0 .. Moment /\ us[h].says = name
    <3>1. h \in UserIDs \ {id} /\ us[h] \in Accounts /\ us[h].name = name /\ Has(us, h)
      BY <2>1 DEF HoldersOf, Has, UserRows
    <3>2. QED
      BY <3>1, <1>0, NotNone DEF RowGood, Accounts
  <2>3. CASE Outranks(at, us[h].at)
    <3>1. /\ c.name = name /\ c.rows = [us EXCEPT ![h].name = "none"]
          /\ c.lost = [Lose(co, h, name, id) EXCEPT ![id] = NoCollision]
      BY <1>2, <2>1, <2>3 DEF ClaimName
    <3>2. /\ rows[h].name = "none" /\ rows[h].at = us[h].at /\ rows[h].says = name
          /\ \A u \in UserIDs \ {id, h} : rows[u] = us[u] /\ c.lost[u] = co[u]
          /\ c.lost[h] = [name |-> name, winner |-> id] /\ c.lost[id] = NoCollision
      BY <1>a, <2>2, <3>1 DEF Lose, Collisions, UserRows, Accounts
    <3>3. ClaimRank(at) >= ClaimRank(us[h].at)
      BY <2>2, <2>3, RankedClaims
    <3>4. RowGood(rows, c.lost, fr, orph, UserIDs, h)
      BY <1>b, <3>1, <3>2, <3>3, NotNone DEF RowGood
    <3>5. RowGood(rows, c.lost, fr, orph, UserIDs, id)
      BY <1>a, <3>1, <3>2, NotNone DEF RowGood
    <3>6. ASSUME NEW u \in UserIDs \ {id, h} PROVE RowGood(rows, c.lost, fr, orph, UserIDs, u)
      <4> SUFFICES ASSUME Has(us, u), us[u].name = "none", us[u].says \notin fr
                   PROVE  \E w \in UserIDs :
                            /\ Has(rows, w) /\ rows[w].name = rows[u].says
                            /\ ClaimRank(rows[w].at) >= ClaimRank(rows[u].at)
        BY <1>0, <3>2, <3>6 DEF RowGood, Has
      <4>1. PICK w \in UserIDs \ {id} : /\ Has(us, w) /\ us[w].name = us[u].says
                                        /\ ClaimRank(us[w].at) >= ClaimRank(us[u].at)
        BY <1>0, <3>6 DEF RowGood
      <4>2. CASE w = h
        <5>1. us[u].at \in 0 .. Moment
          BY <3>6 DEF Has, UserRows, Accounts
        <5>2. /\ ClaimRank(at) \in Nat /\ ClaimRank(us[h].at) \in Nat /\ ClaimRank(us[u].at) \in Nat
          BY <5>1, <2>2, RankedClaims
        <5>3. ClaimRank(at) >= ClaimRank(us[u].at)
          BY <3>3, <4>1, <4>2, <5>2
        <5>4. rows[u] = us[u] /\ rows[id].name = rows[u].says
          BY <1>a, <2>2, <3>1, <3>2, <3>6, <4>1, <4>2
        <5>5. QED
          BY <1>b, <5>3, <5>4
      <4>3. CASE w # h
        BY <3>2, <3>6, <4>1, <4>3 DEF Has
      <4>4. QED
        BY <4>2, <4>3
    <3>7. QED
      BY <3>4, <3>5, <3>6 DEF RowsGood
  <2>4. CASE ~Outranks(at, us[h].at)
    <3>1. c.name = "none" /\ c.rows = us /\ c.lost = Lose(co, id, name, h)
      BY <1>2, <2>1, <2>4 DEF ClaimName
    <3>2. /\ \A u \in UserIDs \ {id} : rows[u] = us[u] /\ c.lost[u] = co[u]
          /\ c.lost[id] = [name |-> name, winner |-> h]
      BY <1>a, <3>1, <2>2 DEF Lose, Collisions
    <3>3. ASSUME NEW u \in UserIDs \ {id} PROVE RowGood(rows, c.lost, fr, orph, UserIDs, u)
      BY <1>0, <3>2, <3>3 DEF RowGood, Has
    <3>4. ClaimRank(us[h].at) >= ClaimRank(at)
      BY <2>2, <2>4, RankedClaims
    <3>5. RowGood(rows, c.lost, fr, orph, UserIDs, id)
      BY <1>a, <2>2, <3>1, <3>2, <3>4, NotNone DEF RowGood, Has
    <3>6. QED
      BY <3>3, <3>5 DEF RowsGood
  <2>5. QED
    BY <2>3, <2>4
<1>3. QED
  BY <1>1, <1>2

\* What excuses some excuses more.
LEMMA MoreIsExcused ==
    ASSUME NEW us, NEW co, NEW fr, NEW fr2, NEW orph, NEW orph2, NEW ids,
           RowsGood(us, co, fr, orph, ids), fr \subseteq fr2, orph \subseteq orph2
    PROVE  RowsGood(us, co, fr2, orph2, ids)
  BY DEF RowsGood, RowGood

\* Who gives a name up, or goes with it, leaves nobody waiting that is not excused.
LEMMA NameGivenUp ==
    ASSUME NEW us \in UserRows, NEW co, NEW fr, NEW orph, NEW id \in UserIDs,
           RowsGood(us, co, fr, orph, UserIDs),
           Has(us, id) => us[id].name \in fr \cup {"none"},
           NEW rows, \A u \in UserIDs \ {id} : rows[u] = us[u]
    PROVE  RowsGood(rows, co, fr, orph, UserIDs \ {id})
<1> SUFFICES ASSUME NEW u \in UserIDs \ {id}, Has(us, u), us[u].name = "none", us[u].says \notin fr
             PROVE  \E w \in UserIDs \ {id} :
                        /\ Has(rows, w) /\ rows[w].name = rows[u].says
                        /\ ClaimRank(rows[w].at) >= ClaimRank(rows[u].at)
  BY DEF RowsGood, RowGood, Has
<1>1. PICK w \in UserIDs : /\ Has(us, w) /\ us[w].name = us[u].says
                           /\ ClaimRank(us[w].at) >= ClaimRank(us[u].at)
  BY DEF RowsGood, RowGood
<1>2. us[u].says # "none"
  BY NotNone DEF Has, UserRows, Accounts
<1>3. w # id
  BY <1>1, <1>2
<1>4. QED
  BY <1>1, <1>3 DEF Has

\* A row that has no profile asks for nothing.
LEMMA NoProfileNoClaim ==
    ASSUME NEW rows, NEW co, NEW fr, NEW orph, NEW id \in UserIDs, ~Has(rows, id),
           RowsGood(rows, co, fr, orph, UserIDs \ {id})
    PROVE  RowsGood(rows, co, fr, orph, UserIDs)
  BY DEF RowsGood, RowGood

\* A name that is claimed has one holder at most afterwards.
LEMMA ClaimedIsHeldOnce ==
    ASSUME NEW us \in UserRows, NEW co \in Collisions, NEW id \in UserIDs,
           NEW name \in Usernames, NEW at \in 0 .. Moment,
           HeldOnce(us, UserIDs \ {id}),
           NEW c, c = ClaimName(us, co, id, name, at),
           NEW a \in Accounts, a.name = c.name,
           NEW rows, rows = Written(c, id, a)
    PROVE  HeldOnce(rows, UserIDs)
<1> DEFINE hs == HoldersOf(us, name, id)
<1>a. /\ rows \in UserRows /\ rows[id] = a
      /\ \A u \in UserIDs \ {id} : rows[u] = c.rows[u]
  BY ClaimWritten
<1>1. CASE hs = {}
  <2>1. c.name = name /\ c.rows = us
    BY <1>1 DEF ClaimName
  <2>2. QED
    BY <1>a, <1>1, <2>1 DEF HeldOnce, HoldersOf, Has
<1>2. CASE hs # {}
  <2>1. PICK h \in hs : h = CHOOSE x \in hs : TRUE
    BY <1>2
  <2>2. h \in UserIDs \ {id} /\ us[h].name = name /\ Has(us, h) /\ us[h] \in Accounts
    BY <2>1 DEF HoldersOf, Has, UserRows
  <2>3. CASE Outranks(at, us[h].at)
    <3>1. c.name = name /\ c.rows = [us EXCEPT ![h].name = "none"]
      BY <1>2, <2>1, <2>3 DEF ClaimName
    <3>2. rows[h].name = "none" /\ \A u \in UserIDs \ {id, h} : rows[u] = us[u]
      BY <1>a, <2>2, <3>1 DEF UserRows, Accounts
    <3>3. \A u \in UserIDs \ {id, h} : Has(us, u) => us[u].name # name
      BY <2>2, NotNone DEF HeldOnce
    <3>4. QED
      BY <1>a, <2>2, <3>1, <3>2, <3>3 DEF HeldOnce, Has
  <2>4. CASE ~Outranks(at, us[h].at)
    <3>1. c.name = "none" /\ c.rows = us
      BY <1>2, <2>1, <2>4 DEF ClaimName
    <3>2. QED
      BY <1>a, <3>1 DEF HeldOnce, Has
  <2>5. QED
    BY <2>3, <2>4
<1>3. QED
  BY <1>1, <1>2

GivenBack(us, co, back, id) == [Returned(us, co, back) EXCEPT ![id] = NoUser]

\* An account that is deleted gives back the names lost to it, one loser each.
LEMMA NamesGivenBack ==
    ASSUME NEW us \in UserRows, NEW co \in Collisions, NEW fr, NEW orph,
           NEW id \in UserIDs, NEW back \in ReturnedTo(us, co, id),
           RowsGood(us, co, fr, orph, UserIDs), HeldOnce(us, UserIDs),
           Has(us, id) => us[id].name \in fr,
           NEW rows, rows = GivenBack(us, co, back, id),
           \A u \in UserIDs :
                co[u].winner = id /\ Has(rows, u) /\ rows[u].name = "none" => u \in orph
    PROVE  /\ rows \in UserRows /\ Cascaded(co, id) \in Collisions
           /\ rows[id] = NoUser
           /\ \A u \in UserIDs \ {id} :
                /\ Has(rows, u) <=> Has(us, u)
                /\ us[u] = NoUser <=> rows[u] = NoUser
                /\ Has(us, u) => rows[u].at = us[u].at
           /\ RowsGood(rows, Cascaded(co, id), fr, orph, UserIDs \ {id})
           /\ HeldOnce(rows, UserIDs)
<1> DEFINE cc == Cascaded(co, id)
<1>0. /\ back \subseteq UserIDs \ {id}
      /\ \A u \in back : /\ Has(us, u) /\ co[u] # NoCollision /\ co[u].winner = id
                         /\ HoldersOf(us, co[u].name, id) = {}
      /\ \A u, v \in back : co[u] = co[v] => u = v
  BY DEF ReturnedTo, InLine
<1>1. \A u \in back : /\ us[u] \in Accounts /\ us[u] # NoUser /\ us[u].name = "none"
                      /\ co[u].name = us[u].says /\ co[u] \in [name : Usernames, winner : UserIDs]
  BY <1>0 DEF RowsGood, RowGood, Has, UserRows, Collisions
<1>2. rows[id] = NoUser /\ \A u \in UserIDs \ ({id} \cup back) : rows[u] = us[u]
  BY DEF GivenBack, Returned
<1>3. \A u \in back : rows[u] = [us[u] EXCEPT !.name = co[u].name]
  BY <1>0 DEF GivenBack, Returned
<1>4. \A u \in back : /\ rows[u] \in Accounts /\ rows[u].name = us[u].says
                      /\ rows[u].at = us[u].at /\ rows[u].says = us[u].says
  <2> TAKE u \in back
  <2>1. /\ us[u] \in Accounts /\ co[u].name = us[u].says /\ co[u].name \in Usernames
        /\ rows[u] = [us[u] EXCEPT !.name = co[u].name]
    BY <1>1, <1>3
  <2>2. QED
    BY <2>1 DEF Accounts
<1>5. rows \in UserRows
  <2>1. \A u \in UserIDs : rows[u] \in {NoUser} \cup Accounts
    BY <1>2, <1>4 DEF UserRows
  <2>2. QED
    BY <2>1 DEF UserRows, GivenBack, Returned
<1>6. cc \in Collisions
  BY DEF Cascaded, Collisions
<1>7. \A u \in UserIDs \ {id} :
        /\ Has(rows, u) <=> Has(us, u)
        /\ us[u] = NoUser <=> rows[u] = NoUser
        /\ Has(us, u) => rows[u].at = us[u].at /\ rows[u].says = us[u].says
  BY <1>0, <1>1, <1>2, <1>4, NotNone DEF Has
<1>8. ASSUME NEW u \in UserIDs \ {id}, Has(us, u) PROVE RowGood(rows, cc, fr, orph, UserIDs \ {id}, u)
  <2>1. /\ us[u].name # "none" => us[u].name = us[u].says
        /\ co[u] # NoCollision => us[u].name = "none" /\ co[u].name = us[u].says
        /\ us[u].name = "none" /\ u \notin orph => co[u] # NoCollision
    BY <1>8 DEF RowsGood, RowGood
  <2>2. cc[u] = NoCollision /\ co[u] # NoCollision => co[u].winner = id
    BY <1>8 DEF Cascaded
  <2>2a. cc[u] = co[u] \/ cc[u] = NoCollision
    BY <1>8 DEF Cascaded
  <2>3. CASE u \in back
    <3>1. cc[u] = NoCollision /\ rows[u].name = us[u].says /\ rows[u].says = us[u].says
      BY <1>0, <1>4, <2>3 DEF Cascaded
    <3>2. rows[u].name # "none"
      BY <1>1, <2>3, <3>1, NotNone DEF Accounts
    <3>3. QED
      BY <3>1, <3>2 DEF RowGood
  <2>4. CASE u \notin back
    <3>1. rows[u] = us[u] /\ Has(rows, u)
      BY <1>2, <1>7, <1>8, <2>4
    <3>2. us[u].name = "none" /\ u \notin orph => cc[u] # NoCollision
      BY <2>1, <2>2, <3>1
    <3>3. ASSUME us[u].name = "none", us[u].says \notin fr
          PROVE  \E h \in UserIDs \ {id} : /\ Has(rows, h) /\ rows[h].name = rows[u].says
                                           /\ ClaimRank(rows[h].at) >= ClaimRank(rows[u].at)
      <4>1. PICK h \in UserIDs : /\ Has(us, h) /\ us[h].name = us[u].says
                                 /\ ClaimRank(us[h].at) >= ClaimRank(us[u].at)
        BY <1>8, <3>3 DEF RowsGood, RowGood
      <4>2. us[u].says # "none"
        BY <1>8, NotNone DEF Has, UserRows, Accounts
      <4>3. h # id /\ h \notin back
        BY <1>1, <3>3, <4>1, <4>2
      <4>4. rows[h] = us[h] /\ Has(rows, h)
        BY <1>2, <4>1, <4>3 DEF Has
      <4>5. QED
        BY <3>1, <4>1, <4>3, <4>4
    <3>4. QED
      BY <2>1, <2>2a, <3>1, <3>2, <3>3 DEF RowGood
  <2>5. QED
    BY <2>3, <2>4
<1>9. RowsGood(rows, cc, fr, orph, UserIDs \ {id})
  BY <1>7, <1>8 DEF RowsGood, RowGood
<1>10. HeldOnce(rows, UserIDs)
  <2> SUFFICES ASSUME NEW u \in UserIDs, NEW v \in UserIDs, Has(rows, u), Has(rows, v), u # v,
                      rows[u].name # "none", rows[u].name = rows[v].name
               PROVE  FALSE
    BY DEF HeldOnce
  <2>1. u # id /\ v # id /\ Has(us, u) /\ Has(us, v)
    BY <1>2, <1>7 DEF Has
  <2>2. CASE u \in back /\ v \in back
    <3>1. co[u].name = co[v].name /\ co[u].winner = co[v].winner
      BY <1>0, <1>1, <1>4, <2>2
    <3>2. co[u] = co[v]
      BY <1>1, <2>2, <3>1
    <3>3. QED
      BY <1>0, <2>2, <3>2
  <2>3. CASE u \in back /\ v \notin back
    BY <1>0, <1>1, <1>2, <1>4, <2>1, <2>3 DEF HoldersOf
  <2>4. CASE u \notin back /\ v \in back
    BY <1>0, <1>1, <1>2, <1>4, <2>1, <2>4 DEF HoldersOf
  <2>5. CASE u \notin back /\ v \notin back
    BY <1>2, <2>1, <2>5 DEF HeldOnce
  <2>6. QED
    BY <2>2, <2>3, <2>4, <2>5
<1>11. QED
  BY <1>2, <1>5, <1>6, <1>7, <1>9, <1>10

TakenAway(us, id) == [us EXCEPT ![id].name = "none", ![id].at = 0]

\* A profile that is taken away frees its name and nobody else's.
LEMMA ProfileTakenAway ==
    ASSUME NEW us \in UserRows, NEW co, NEW fr, NEW orph, NEW id \in UserIDs,
           Has(us, id), RowsGood(us, co, fr, orph, UserIDs), HeldOnce(us, UserIDs),
           us[id].name \in fr \cup {"none"},
           NEW rows, rows = TakenAway(us, id)
    PROVE  /\ rows \in UserRows /\ ~Has(rows, id) /\ rows[id] # NoUser
           /\ \A u \in UserIDs \ {id} : rows[u] = us[u]
           /\ RowsGood(rows, co, fr, orph, UserIDs) /\ HeldOnce(rows, UserIDs)
<1>1. us[id] \in Accounts
  BY DEF Has, UserRows
<1>2. rows[id] = [us[id] EXCEPT !.name = "none", !.at = 0] /\ \A u \in UserIDs \ {id} : rows[u] = us[u]
  BY DEF UserRows, TakenAway
<1>3. rows[id] \in Accounts /\ rows[id].at = 0
  <2>1. PICK a \in Accounts : a = us[id]
    BY <1>1
  <2>2. rows[id] = [a EXCEPT !.name = "none", !.at = 0]
    BY <1>2, <2>1
  <2>3. 0 \in 0 .. Moment
    BY RecoveredAssumption
  <2>4. QED
    BY <2>2, <2>3 DEF Accounts
<1>4. rows \in UserRows
  BY <1>2, <1>3 DEF UserRows, TakenAway
<1>5. ~Has(rows, id) /\ rows[id] # NoUser
  BY <1>3, NotNone DEF Has
<1>6. RowsGood(rows, co, fr, orph, UserIDs)
  <2>1. RowsGood(rows, co, fr, orph, UserIDs \ {id})
    BY <1>2, NameGivenUp
  <2>2. QED
    BY <1>5, <2>1, NoProfileNoClaim
<1>7. HeldOnce(rows, UserIDs)
  <2>1. \A u \in UserIDs : Has(rows, u) => u # id /\ rows[u] = us[u] /\ Has(us, u)
    BY <1>2, <1>5 DEF Has
  <2>2. QED
    BY <2>1 DEF HeldOnce
<1>8. QED
  BY <1>2, <1>4, <1>5, <1>6, <1>7

\* Who has a profile is counted.
LEMMA PresentCounts ==
    ASSUME NEW us, NEW rows, NEW id \in UserIDs,
           \A u \in UserIDs \ {id} : Has(rows, u) <=> Has(us, u)
    PROVE  /\ Cardinality(Present(us)) \in Nat
           /\ (Has(rows, id) <=> Has(us, id)) => Present(rows) = Present(us)
           /\ Has(us, id) /\ ~Has(rows, id) =>
                Cardinality(Present(rows)) = Less(Cardinality(Present(us)))
           /\ ~Has(us, id) /\ Has(rows, id) =>
                Cardinality(Present(rows)) = Cardinality(Present(us)) + 1
<1>1. IsFiniteSet(Present(us)) /\ IsFiniteSet(Present(rows))
  BY FS_Subset, RecoveredAssumption DEF Present
<1>2. Cardinality(Present(us)) \in Nat /\ Cardinality(Present(rows)) \in Nat
  BY <1>1, FS_CardinalityType
<1>3. ASSUME Has(rows, id) <=> Has(us, id) PROVE Present(rows) = Present(us)
  BY <1>3 DEF Present
<1>4. ASSUME Has(us, id), ~Has(rows, id)
      PROVE  Cardinality(Present(rows)) = Less(Cardinality(Present(us)))
  <2>1. Present(us) = Present(rows) \cup {id} /\ id \notin Present(rows)
    BY <1>4 DEF Present
  <2>2. Cardinality(Present(us)) = Cardinality(Present(rows)) + 1
    BY <1>1, <2>1, FS_AddElement
  <2>3. QED
    BY <1>2, <2>2 DEF Less
<1>5. ASSUME ~Has(us, id), Has(rows, id)
      PROVE  Cardinality(Present(rows)) = Cardinality(Present(us)) + 1
  <2>1. Present(rows) = Present(us) \cup {id} /\ id \notin Present(us)
    BY <1>5 DEF Present
  <2>2. QED
    BY <1>1, <2>1, FS_AddElement
<1>6. QED
  BY <1>2, <1>3, <1>4, <1>5

\* A profile that is written for an account removed meanwhile is taken away again.
LEMMA RemovedStaysRemoved ==
    ASSUME NEW us \in UserRows, NEW co, NEW fr, NEW orph, NEW id \in UserIDs,
           Has(us, id), RowsGood(us, co, fr, orph, UserIDs), HeldOnce(us, UserIDs),
           NEW rows,
           rows = us \/ (rows = TakenAway(us, id) /\ us[id].name \in fr \cup {"none"})
    PROVE  /\ rows \in UserRows
           /\ rows = us => Has(rows, id)
           /\ rows = TakenAway(us, id) => ~Has(rows, id)
           /\ rows[id] # NoUser /\ (Has(rows, id) => rows[id] = us[id])
           /\ \A u \in UserIDs \ {id} : rows[u] = us[u]
           /\ RowsGood(rows, co, fr, orph, UserIDs) /\ HeldOnce(rows, UserIDs)
<1>1. CASE rows = TakenAway(us, id) /\ us[id].name \in fr \cup {"none"}
  <2>1. /\ rows \in UserRows /\ ~Has(rows, id) /\ rows[id] # NoUser
        /\ \A u \in UserIDs \ {id} : rows[u] = us[u]
        /\ RowsGood(rows, co, fr, orph, UserIDs) /\ HeldOnce(rows, UserIDs)
    BY <1>1, ProfileTakenAway
  <2>2. rows # us
    BY <2>1
  <2>3. QED
    BY <2>1, <2>2
<1>2. CASE rows = us /\ rows # TakenAway(us, id)
  BY <1>2 DEF Has
<1>3. CASE rows = us /\ rows = TakenAway(us, id)
  <2>1. us[id].at = 0
    BY <1>3 DEF TakenAway, UserRows
  <2>2. QED
    BY <2>1 DEF Has
<1>4. QED
  BY <1>1, <1>2, <1>3

\* Settle either leaves the rows alone or takes the profile away.
LEMMA SettleIs ==
    ASSUME NEW us, NEW id, NEW removed
    PROVE  Settle(us, id, removed) =
            IF id \in removed /\ Has(us, id) THEN TakenAway(us, id) ELSE us
  BY DEF Settle, TakenAway

\* What a save writes for profile p of an account whose row keeps it from
\* nobody: new, or updated with a newer profile.
LEMMA ProfileWritten ==
    ASSUME NEW us \in UserRows, NEW co \in Collisions, NEW fr, NEW orph,
           NEW id \in UserIDs, NEW name \in Usernames, NEW at \in 1 .. Moment,
           NEW c, c = ClaimName(us, co, id, name, at),
           RowsGood(us, co, fr, orph, UserIDs \ {id}), HeldOnce(us, UserIDs \ {id}),
           NEW a \in Accounts, a.name = c.name, a.at = at, a.says = name,
           NEW written, written = Written(c, id, a),
           NEW rows, rows = written \/ (rows = TakenAway(written, id) /\ name \in fr)
    PROVE  /\ rows \in UserRows /\ c.lost \in Collisions
           /\ RowsGood(rows, c.lost, fr, orph, UserIDs) /\ HeldOnce(rows, UserIDs)
           /\ rows[id] # NoUser
           /\ rows = written => Has(rows, id)
           /\ rows = TakenAway(written, id) => ~Has(rows, id)
           /\ Has(rows, id) => rows[id].at = at
           /\ \A u \in UserIDs \ {id} :
                /\ Has(rows, u) <=> Has(us, u)
                /\ rows[u] = NoUser <=> us[u] = NoUser
                /\ Has(us, u) => rows[u].at = us[u].at
                /\ us[u] = NoUser => c.lost[u] = co[u]
<1>1. at \in 0 .. Moment /\ at > 0
  OBVIOUS
<1>2. /\ c.rows \in UserRows /\ c.lost \in Collisions /\ c.name \in Usernames \cup {"none"}
      /\ \A u \in UserIDs : /\ Has(c.rows, u) <=> Has(us, u)
                            /\ c.rows[u] = NoUser <=> us[u] = NoUser
                            /\ Has(us, u) => c.rows[u].at = us[u].at
      /\ \A u \in UserIDs \ {id} : us[u] = NoUser => c.lost[u] = co[u]
  BY <1>1, ClaimKeepsShapes
<1>3. /\ written \in UserRows /\ written[id] = a /\ \A u \in UserIDs \ {id} : written[u] = c.rows[u]
  BY <1>1, ClaimWritten
<1>4. Has(written, id)
  BY <1>1, <1>3, NotNone DEF Has
<1>5. RowsGood(written, c.lost, fr, orph, UserIDs)
  BY <1>1, NameClaimed
<1>6. HeldOnce(written, UserIDs)
  BY <1>1, ClaimedIsHeldOnce
<1>7. rows = written \/ (rows = TakenAway(written, id) /\ written[id].name \in fr \cup {"none"})
  <2>1. c.name \in {name, "none"}
    BY DEF ClaimName
  <2>2. QED
    BY <1>3, <2>1
<1>8. /\ rows \in UserRows
      /\ rows = written => Has(rows, id)
      /\ rows = TakenAway(written, id) => ~Has(rows, id)
      /\ rows[id] # NoUser /\ (Has(rows, id) => rows[id] = written[id])
      /\ \A u \in UserIDs \ {id} : rows[u] = written[u]
      /\ RowsGood(rows, c.lost, fr, orph, UserIDs) /\ HeldOnce(rows, UserIDs)
  BY <1>3, <1>4, <1>5, <1>6, <1>7, RemovedStaysRemoved
<1>9. \A u \in UserIDs \ {id} :
        /\ Has(rows, u) <=> Has(us, u)
        /\ rows[u] = NoUser <=> us[u] = NoUser
        /\ Has(us, u) => rows[u].at = us[u].at
        /\ us[u] = NoUser => c.lost[u] = co[u]
  BY <1>2, <1>3, <1>8 DEF Has
<1>10. QED
  BY <1>2, <1>3, <1>8, <1>9

\* What a save under way holds.
LEMMA SaveHolds ==
    ASSUME RecoveredTypeOK, NEW w \in Savers, saving[w] # NotSaving
    PROVE  /\ saving[w].profile \in Saved /\ saving[w].own \in BOOLEAN
           /\ saving[w].was \in KeyNests \cup {"none"} /\ saving[w].seen \in 0 .. Moment
  BY DEF RecoveredTypeOK

LEMMA SavedProfiles ==
    ASSUME NEW p \in Saved \cup Joins
    PROVE  /\ p.id \in UserIDs /\ p.name \in Usernames /\ p.key \in KeyNests
           /\ p.at \in 1 .. Moment /\ p.since \in 1 .. Moment
<1>1. p.id \in UserIDs /\ p.at \in 1 .. Moment /\ p.since \in 1 .. p.at /\ Moment \in Nat
  BY RecoveredAssumption
<1>2. QED
  BY <1>1 DEF Usernames, KeyNests

\* An account is created, with some removals on record: its own only if the
\* name it had is excused.
InsertedWithout(j, us, co, n, fr) ==
    \E removed :
        /\ Insert(j, us, co, n, removed)
        /\ j.profile.id \in removed => j.profile.name \in fr

\* An account that is created: its row, its name, its count.
LEMMA AccountInserted ==
    ASSUME NEW j, NEW p \in Saved, j.profile = p, NEW id \in UserIDs, p.id = id,
           NEW us \in UserRows, NEW co \in Collisions, NEW n \in Nat, NEW fr, NEW orph,
           us[id] = NoUser, InsertedWithout(j, us, co, n, fr),
           RowsGood(us, co, fr, orph, UserIDs \ {id}), HeldOnce(us, UserIDs \ {id})
    PROVE  /\ userRow' \in UserRows /\ collision' \in Collisions /\ activeUsers' \in Nat
           /\ RowsGood(userRow', collision', fr, orph, UserIDs) /\ HeldOnce(userRow', UserIDs)
           /\ userRow'[id] # NoUser
           /\ Has(userRow', id) => userRow'[id].at = p.at
           /\ \A u \in UserIDs \ {id} :
                /\ Has(userRow', u) <=> Has(us, u)
                /\ userRow'[u] = NoUser <=> us[u] = NoUser
                /\ Has(us, u) => userRow'[u].at = us[u].at
                /\ us[u] = NoUser => collision'[u] = co[u]
           /\ n = Cardinality(Present(us)) => activeUsers' = Cardinality(Present(userRow'))
<1>1. PICK name \in Usernames, at \in 1 .. Moment : name = p.name /\ at = p.at
  BY SavedProfiles
<1>2. PICK c : c = ClaimName(us, co, id, name, at)
  OBVIOUS
<1>3. c.name \in Usernames \cup {"none"}
  BY <1>2, ClaimKeepsShapes
<1>4. PICK a \in Accounts :
        /\ a = [key |-> p.key, name |-> c.name, at |-> at, says |-> name, since |-> p.since]
        /\ a.name = c.name /\ a.at = at /\ a.says = name
  <2>1. p.key \in KeyNests /\ p.since \in 1 .. Moment /\ at \in 0 .. Moment
    BY SavedProfiles
  <2>2. [key |-> p.key, name |-> c.name, at |-> at, says |-> name, since |-> p.since] \in Accounts
    BY <1>3, <2>1 DEF Accounts
  <2>3. QED
    BY <2>2
<1>4a. PICK removed : Insert(j, us, co, n, removed) /\ (id \in removed => p.name \in fr)
  BY DEF InsertedWithout
<1>5. /\ userRow' = Settle(Written(c, id, a), id, removed) /\ collision' = c.lost
      /\ activeUsers' = IF id \in removed THEN n ELSE n + 1
  BY <1>1, <1>2, <1>4, <1>4a DEF Insert, Written
<1>6. id \in removed => name \in fr
  BY <1>1, <1>4a
<1>7. PICK written, rows : written = Written(c, id, a) /\ rows = Settle(written, id, removed)
  OBVIOUS
<1>8. /\ rows \in UserRows /\ c.lost \in Collisions
      /\ RowsGood(rows, c.lost, fr, orph, UserIDs) /\ HeldOnce(rows, UserIDs)
      /\ rows[id] # NoUser
      /\ Has(rows, id) <=> id \notin removed
      /\ Has(rows, id) => rows[id].at = at
      /\ \A u \in UserIDs \ {id} :
           /\ Has(rows, u) <=> Has(us, u)
           /\ rows[u] = NoUser <=> us[u] = NoUser
           /\ Has(us, u) => rows[u].at = us[u].at
           /\ us[u] = NoUser => c.lost[u] = co[u]
  <2>1. a.name = c.name /\ a.at = at /\ a.says = name
    BY <1>4
  <2>2. /\ written = Written(c, id, a)
        /\ rows = IF id \in removed /\ Has(written, id) THEN TakenAway(written, id) ELSE written
    BY <1>7, SettleIs
  <2>3. rows = written \/ (rows = TakenAway(written, id) /\ name \in fr)
    BY <1>6, <2>2
  <2>4. /\ rows \in UserRows /\ c.lost \in Collisions
        /\ RowsGood(rows, c.lost, fr, orph, UserIDs) /\ HeldOnce(rows, UserIDs)
        /\ rows[id] # NoUser
        /\ rows = written => Has(rows, id)
        /\ rows = TakenAway(written, id) => ~Has(rows, id)
        /\ Has(rows, id) => rows[id].at = at
        /\ \A u \in UserIDs \ {id} :
             /\ Has(rows, u) <=> Has(us, u)
             /\ rows[u] = NoUser <=> us[u] = NoUser
             /\ Has(us, u) => rows[u].at = us[u].at
             /\ us[u] = NoUser => c.lost[u] = co[u]
    BY <1>2, <2>1, <2>2, <2>3, ProfileWritten
  <2>5. QED
    BY <2>2, <2>4
<1>9. n = Cardinality(Present(us)) => activeUsers' = Cardinality(Present(rows))
  <2>1. ~Has(us, id)
    BY DEF Has
  <2>2. /\ ~Has(rows, id) => Present(rows) = Present(us)
        /\ Has(rows, id) => Cardinality(Present(rows)) = Cardinality(Present(us)) + 1
    BY <1>8, <2>1, PresentCounts
  <2>3. QED
    BY <1>5, <1>8, <2>2
<1>10. QED
  BY <1>1, <1>5, <1>7, <1>8, <1>9

-----------------------------------------------------------------------------
(* The invariant, action by action                                         *)

\* The rest of the types, that the rows have no part in.
OthersTyped ==
    /\ leftIds \subseteq UserIDs /\ unclaimed \subseteq UserIDs /\ ongoing \subseteq UserIDs
    /\ saving \in [Savers -> {NotSaving} \cup
            [step : {"read"}, profile : Saved, own : BOOLEAN, was : KeyNests \cup {"none"},
             seen : 0 .. Moment]]
    /\ newest \in [UserIDs -> 0 .. Moment]
    /\ stale \subseteq UserIDs /\ orphaned \subseteq UserIDs
    /\ freed \subseteq Usernames \cup {"none"}

LEMMA TypesSplit ==
    /\ RecoveredTypeOK <=>
        userRow \in UserRows /\ collision \in Collisions /\ activeUsers \in Nat /\ OthersTyped
    /\ RecoveredTypeOK' <=>
        userRow' \in UserRows /\ collision' \in Collisions /\ activeUsers' \in Nat /\ OthersTyped'
<1>1. RecoveredTypeOK <=>
        userRow \in UserRows /\ collision \in Collisions /\ activeUsers \in Nat /\ OthersTyped
  BY DEF RecoveredTypeOK, UserRows, Accounts, Collisions, OthersTyped
<1>2. RecoveredTypeOK' <=>
        userRow' \in UserRows /\ collision' \in Collisions /\ activeUsers' \in Nat /\ OthersTyped'
  BY DEF RecoveredTypeOK, UserRows, Accounts, Collisions, OthersTyped
<1>3. QED
  BY <1>1, <1>2

\* A step that leaves the accounts alone.
LEMMA RowsLeftAlone ==
    ASSUME AccountsInv, OthersTyped',
           UNCHANGED <<userRow, collision, activeUsers, newest, stale, freed, orphaned>>
    PROVE  AccountsInv'
<1>1. RecoveredTypeOK'
  BY TypesSplit DEF AccountsInv
<1>2. NoRowNoCollision'
  BY DEF AccountsInv, NoRowNoCollision, OnRecord
<1>3. RowsGood(userRow', collision', freed', orphaned', UserIDs) /\ HeldOnce(userRow', UserIDs)
  BY DEF AccountsInv
<1>4. ProfilesSettle'
  BY DEF AccountsInv, ProfilesSettle, NewestProfileUnlessStale, ActiveUsersCountedUnlessStale, Has
<1>5. QED
  BY <1>1, <1>2, <1>3, <1>4 DEF AccountsInv

LEMMA SaveReadsStep ==
    ASSUME AccountsInv, NEW w \in Savers, NEW p \in Saved, NEW own \in BOOLEAN, SaveReads(w, p, own)
    PROVE  AccountsInv'
<1> DEFINE was == IF OnRecord(p.id) THEN userRow[p.id].key ELSE "none"
           seen == IF OnRecord(p.id) THEN userRow[p.id].at ELSE 0
<1>1. p.id \in UserIDs /\ 0 \in 0 .. Moment
  BY SavedProfiles, RecoveredAssumption
<1>2. was \in KeyNests \cup {"none"} /\ seen \in 0 .. Moment
  BY <1>1, TypesSplit DEF AccountsInv, OnRecord, UserRows, Accounts
<1>3. saving' = [saving EXCEPT ![w] =
            [step |-> "read", profile |-> p, own |-> own, was |-> was, seen |-> seen]]
  BY DEF SaveReads
<1>4. OthersTyped'
  <2> HIDE DEF was, seen
  <2>1. OthersTyped
    BY TypesSplit DEF AccountsInv
  <2>2. QED
    BY <1>2, <1>3, <2>1 DEF OthersTyped, SaveReads
<1>5. QED
  BY <1>4, RowsLeftAlone DEF SaveReads

LEMMA SaveDoneTyped ==
    ASSUME OthersTyped, NEW w \in Savers, SaveDone(w)
    PROVE  saving' \in [Savers -> {NotSaving} \cup
            [step : {"read"}, profile : Saved, own : BOOLEAN, was : KeyNests \cup {"none"},
             seen : 0 .. Moment]]
  BY DEF OthersTyped, SaveDone

LEMMA SaveRemovedStep ==
    ASSUME AccountsInv, NEW w \in Savers, SaveRemoved(w)
    PROVE  AccountsInv'
<1>1. OthersTyped /\ saving[w].profile.id \in UserIDs
  BY TypesSplit, SaveHolds, SavedProfiles DEF AccountsInv, SaveRemoved
<1>2. OthersTyped'
  BY <1>1, SaveDoneTyped DEF OthersTyped, SaveRemoved, Claimed
<1>3. QED
  BY <1>2, RowsLeftAlone DEF SaveRemoved

LEMMA SaveRefusedStep ==
    ASSUME AccountsInv, NEW w \in Savers, SaveRefused(w)
    PROVE  AccountsInv'
<1>1. OthersTyped
  BY TypesSplit DEF AccountsInv
<1>2. OthersTyped'
  BY <1>1, SaveDoneTyped DEF OthersTyped, SaveRefused
<1>3. QED
  BY <1>2, RowsLeftAlone DEF SaveRefused

LEMMA CompleteImportStep ==
    ASSUME AccountsInv, NEW id \in UserIDs, CompleteImport(id)
    PROVE  AccountsInv'
<1>1. OthersTyped
  BY TypesSplit DEF AccountsInv
<1>2. OthersTyped'
  BY <1>1 DEF OthersTyped, CompleteImport
<1>3. QED
  BY <1>2, RowsLeftAlone DEF CompleteImport

\* A step that renews the row of one account, and takes names from or gives them to others.
LEMMA OneRowRenewed ==
    ASSUME AccountsInv, OthersTyped', NEW id \in UserIDs,
           userRow' \in UserRows, collision' \in Collisions, activeUsers' \in Nat,
           RowsGood(userRow', collision', freed', orphaned', UserIDs), HeldOnce(userRow', UserIDs),
           userRow'[id] # NoUser, stale \subseteq stale',
           \A u \in UserIDs \ {id} :
                /\ Has(userRow', u) <=> Has(userRow, u)
                /\ userRow'[u] = NoUser => collision'[u] = NoCollision
                /\ Has(userRow, u) => userRow'[u].at = userRow[u].at
                /\ newest'[u] = newest[u],
           Has(userRow', id) /\ id \notin stale' => userRow'[id].at = newest'[id],
           stale' = {} => activeUsers' = Cardinality(Present(userRow'))
    PROVE  AccountsInv'
<1>1. RecoveredTypeOK'
  BY TypesSplit
<1>2. NoRowNoCollision'
  BY DEF NoRowNoCollision, OnRecord
<1>3. NewestProfileUnlessStale'
  <2>1. \A u \in UserIDs \ stale : Has(userRow, u) => userRow[u].at = newest[u]
    BY DEF AccountsInv, ProfilesSettle, NewestProfileUnlessStale
  <2>2. \A u \in UserIDs \ stale' : Has(userRow', u) => userRow'[u].at = newest'[u]
    BY <2>1
  <2>3. QED
    BY <2>2 DEF NewestProfileUnlessStale, Has
<1>4. ActiveUsersCountedUnlessStale'
  BY DEF ActiveUsersCountedUnlessStale, Present, Has
<1>5. QED
  BY <1>1, <1>2, <1>3, <1>4 DEF AccountsInv, ProfilesSettle

LEMMA InvGives ==
    ASSUME AccountsInv
    PROVE  /\ RecoveredTypeOK /\ userRow \in UserRows /\ collision \in Collisions
           /\ activeUsers \in Nat /\ OthersTyped
           /\ \A u \in UserIDs : userRow[u] = NoUser => collision[u] = NoCollision
           /\ RowsGood(userRow, collision, freed, orphaned, UserIDs) /\ HeldOnce(userRow, UserIDs)
           /\ \A u \in UserIDs \ stale : Has(userRow, u) => userRow[u].at = newest[u]
           /\ stale = {} => activeUsers = Cardinality(Present(userRow))
<1>1. RecoveredTypeOK /\ NoRowNoCollision /\ ProfilesSettle
  BY DEF AccountsInv
<1>2. \A u \in UserIDs : userRow[u] = NoUser => collision[u] = NoCollision
  BY <1>1 DEF NoRowNoCollision, OnRecord
<1>3. \A u \in UserIDs \ stale : Has(userRow, u) => userRow[u].at = newest[u]
  BY <1>1 DEF ProfilesSettle, NewestProfileUnlessStale
<1>4. stale = {} => activeUsers = Cardinality(Present(userRow))
  BY <1>1 DEF ProfilesSettle, ActiveUsersCountedUnlessStale, Present
<1>5. QED
  BY <1>1, <1>2, <1>3, <1>4, TypesSplit DEF AccountsInv

LEMMA FewerIds ==
    ASSUME NEW us \in UserRows, NEW co, NEW fr, NEW orph, NEW id \in UserIDs,
           ~Has(us, id) \/ us[id].name \in fr \cup {"none"},
           RowsGood(us, co, fr, orph, UserIDs), HeldOnce(us, UserIDs)
    PROVE  RowsGood(us, co, fr, orph, UserIDs \ {id}) /\ HeldOnce(us, UserIDs \ {id})
<1>1. RowsGood(us, co, fr, orph, UserIDs \ {id})
  BY NameGivenUp
<1>2. QED
  BY <1>1 DEF HeldOnce

LEMMA SaveCreatesStep ==
    ASSUME AccountsInv, NEW w \in Savers, SaveCreates(w)
    PROVE  AccountsInv'
<1>0. PICK j : j = saving[w]
  OBVIOUS
<1>1. PICK p \in Saved, id \in UserIDs : j.profile = p /\ p.id = id
  <2>1. saving[w].profile \in Saved
    BY InvGives, SaveHolds DEF SaveCreates
  <2>2. saving[w].profile.id \in UserIDs
    BY <2>1, SavedProfiles
  <2>3. QED
    BY <1>0, <2>1, <2>2
<1>2. /\ userRow \in UserRows /\ collision \in Collisions /\ activeUsers \in Nat /\ OthersTyped
      /\ \A u \in UserIDs : userRow[u] = NoUser => collision[u] = NoCollision
      /\ RowsGood(userRow, collision, freed, orphaned, UserIDs) /\ HeldOnce(userRow, UserIDs)
      /\ stale = {} => activeUsers = Cardinality(Present(userRow))
  BY InvGives
<1>3. /\ userRow[id] = NoUser /\ Insert(j, userRow, collision, activeUsers, leftIds)
      /\ freed' = freed \cup GivenUp(j) /\ Claimed(j, TRUE) /\ SaveDone(w)
      /\ UNCHANGED <<leftIds, stale, orphaned>>
  BY <1>0, <1>1 DEF SaveCreates, OnRecord
<1>4. newest' = [newest EXCEPT ![id] = p.at] /\ p.at \in 1 .. Moment /\ p.name \in Usernames
  BY <1>1, <1>3, SavedProfiles DEF Insert
<1>5. RowsGood(userRow, collision, freed', orphaned, UserIDs \ {id}) /\ HeldOnce(userRow, UserIDs \ {id})
  <2>1. RowsGood(userRow, collision, freed', orphaned, UserIDs)
    BY <1>2, <1>3, MoreIsExcused
  <2>2. ~Has(userRow, id)
    BY <1>3 DEF Has
  <2>3. QED
    BY <1>2, <2>1, <2>2, FewerIds
<1>6. /\ userRow' \in UserRows /\ collision' \in Collisions /\ activeUsers' \in Nat
      /\ RowsGood(userRow', collision', freed', orphaned, UserIDs) /\ HeldOnce(userRow', UserIDs)
      /\ userRow'[id] # NoUser
      /\ Has(userRow', id) => userRow'[id].at = p.at
      /\ \A u \in UserIDs \ {id} :
           /\ Has(userRow', u) <=> Has(userRow, u)
           /\ userRow'[u] = NoUser <=> userRow[u] = NoUser
           /\ Has(userRow, u) => userRow'[u].at = userRow[u].at
           /\ userRow[u] = NoUser => collision'[u] = collision[u]
      /\ activeUsers = Cardinality(Present(userRow)) => activeUsers' = Cardinality(Present(userRow'))
  <2>1. PICK us, co, n, fr, orph :
            us = userRow /\ co = collision /\ n = activeUsers /\ fr = freed' /\ orph = orphaned
    OBVIOUS
  <2>2. /\ us \in UserRows /\ co \in Collisions /\ n \in Nat
        /\ us[id] = NoUser
        /\ RowsGood(us, co, fr, orph, UserIDs \ {id}) /\ HeldOnce(us, UserIDs \ {id})
    BY <1>2, <1>3, <1>5, <2>1
  <2>3. InsertedWithout(j, us, co, n, fr)
    <3>1. j.profile.id \in leftIds => j.profile.name \in fr
      BY <1>3, <2>1 DEF GivenUp
    <3>2. Insert(j, us, co, n, leftIds)
      BY <1>3, <2>1
    <3>3. QED
      BY <3>1, <3>2 DEF InsertedWithout
  <2>4. QED
    BY <1>1, <2>1, <2>2, <2>3, AccountInserted
<1>7. OthersTyped'
  <2>1. freed' \subseteq Usernames \cup {"none"}
    BY <1>1, <1>2, <1>3, <1>4 DEF OthersTyped, GivenUp
  <2>2. newest' \in [UserIDs -> 0 .. Moment]
    BY <1>2, <1>4 DEF OthersTyped
  <2>3. unclaimed' \subseteq UserIDs /\ ongoing' \subseteq UserIDs
    BY <1>1, <1>2, <1>3 DEF OthersTyped, Claimed
  <2>4. QED
    BY <1>2, <1>3, <2>1, <2>2, <2>3, SaveDoneTyped DEF OthersTyped
<1>8. newest'[id] = p.at /\ \A u \in UserIDs \ {id} : newest'[u] = newest[u]
  BY <1>2, <1>4 DEF OthersTyped
<1>9. \A u \in UserIDs \ {id} : userRow'[u] = NoUser => collision'[u] = NoCollision
  BY <1>2, <1>6
<1>10. RowsGood(userRow', collision', freed', orphaned', UserIDs) /\ stale' = stale
  BY <1>3, <1>6
<1>11. QED
  BY <1>2, <1>6, <1>7, <1>8, <1>9, <1>10, OneRowRenewed

LEMMA SaveReplacesStep ==
    ASSUME AccountsInv, NEW w \in Savers, SaveReplaces(w)
    PROVE  AccountsInv'
<1>0. PICK j : j = saving[w]
  OBVIOUS
<1>1. PICK p \in Saved, id \in UserIDs :
        j.profile = p /\ p.id = id /\ j.seen \in 0 .. Moment
  <2>1. j \in [step : {"read"}, profile : Saved, own : BOOLEAN, was : KeyNests \cup {"none"},
               seen : 0 .. Moment]
    BY <1>0, InvGives DEF SaveReplaces, OthersTyped
  <2>2. j.profile \in Saved /\ j.profile.id \in UserIDs
    BY <2>1, SavedProfiles
  <2>3. QED
    BY <2>1, <2>2
<1>2. /\ userRow \in UserRows /\ collision \in Collisions /\ activeUsers \in Nat /\ OthersTyped
      /\ \A u \in UserIDs : userRow[u] = NoUser => collision[u] = NoCollision
      /\ RowsGood(userRow, collision, freed, orphaned, UserIDs) /\ HeldOnce(userRow, UserIDs)
      /\ stale = {} => activeUsers = Cardinality(Present(userRow))
  BY InvGives
<1>3a. PICK back \in ReturnedTo(userRow, collision, id) :
        \E rows :
          /\ rows = [Returned(userRow, collision, back) EXCEPT ![id] = NoUser]
          /\ Insert(j, rows, Cascaded(collision, id), Replaced(activeUsers), leftIds \ {id})
          /\ orphaned' = orphaned \cup
              {u \in UserIDs : collision[u].winner = id /\ Has(rows, u) /\ rows[u].name = "none"}
  BY <1>0, <1>1, ZenonT(40) DEF SaveReplaces
<1>3. PICK rows :
        /\ rows = [Returned(userRow, collision, back) EXCEPT ![id] = NoUser]
        /\ Insert(j, rows, Cascaded(collision, id), Replaced(activeUsers), leftIds \ {id})
        /\ orphaned' = orphaned \cup
            {u \in UserIDs : collision[u].winner = id /\ Has(rows, u) /\ rows[u].name = "none"}
  BY <1>3a
<1>4. /\ userRow[id] # NoUser /\ j.seen > 0
      /\ freed' = freed \cup {userRow[id].name}
      /\ stale' = IF userRow[id].at # j.seen THEN stale \cup {id} ELSE stale
      /\ leftIds' = leftIds \ {id} /\ SaveDone(w)
      /\ unclaimed' = IF j.own THEN unclaimed \ {id} ELSE unclaimed \cup {id}
      /\ ongoing' = IF j.own THEN ongoing \cup {id} ELSE ongoing \ {id}
  BY <1>0, <1>1 DEF SaveReplaces, SameRow, OnRecord
<1>5. /\ newest' = [newest EXCEPT ![id] = p.at] /\ p.at \in 1 .. Moment /\ p.name \in Usernames
      /\ userRow[id].name \in Usernames \cup {"none"}
  <2>1. newest' = [newest EXCEPT ![id] = p.at]
    BY <1>1, <1>3 DEF Insert
  <2>2. userRow[id].name \in Usernames \cup {"none"}
    BY <1>2, <1>4 DEF UserRows, Accounts
  <2>3. QED
    BY <2>1, <2>2, SavedProfiles
<1>6. /\ rows \in UserRows /\ Cascaded(collision, id) \in Collisions
      /\ rows[id] = NoUser
      /\ \A u \in UserIDs \ {id} :
           /\ Has(rows, u) <=> Has(userRow, u)
           /\ userRow[u] = NoUser <=> rows[u] = NoUser
           /\ Has(userRow, u) => rows[u].at = userRow[u].at
      /\ RowsGood(rows, Cascaded(collision, id), freed', orphaned', UserIDs \ {id})
      /\ HeldOnce(rows, UserIDs)
  <2>1. PICK us, co, fr, orph :
            us = userRow /\ co = collision /\ fr = freed' /\ orph = orphaned'
    OBVIOUS
  <2>2. /\ us \in UserRows /\ co \in Collisions /\ back \in ReturnedTo(us, co, id)
        /\ HeldOnce(us, UserIDs) /\ us[id].name \in fr
        /\ rows = GivenBack(us, co, back, id)
    BY <1>2, <1>3, <1>4, <2>1 DEF GivenBack
  <2>3. \A u \in UserIDs :
            co[u].winner = id /\ Has(rows, u) /\ rows[u].name = "none" => u \in orph
    BY <1>3, <2>1
  <2>4. RowsGood(us, co, fr, orph, UserIDs)
    <3>1. freed \subseteq freed' /\ orphaned \subseteq orphaned'
      BY <1>3, <1>4
    <3>2. QED
      BY <1>2, <2>1, <3>1, MoreIsExcused
  <2>5. /\ rows \in UserRows /\ Cascaded(co, id) \in Collisions
        /\ rows[id] = NoUser
        /\ \A u \in UserIDs \ {id} :
             /\ Has(rows, u) <=> Has(us, u)
             /\ us[u] = NoUser <=> rows[u] = NoUser
             /\ Has(us, u) => rows[u].at = us[u].at
        /\ RowsGood(rows, Cascaded(co, id), fr, orph, UserIDs \ {id})
        /\ HeldOnce(rows, UserIDs)
    BY <2>2, <2>3, <2>4, NamesGivenBack
  <2>6. QED
    BY <2>1, <2>5
<1>7. PICK us, co, n, fr, orph :
        /\ us = rows /\ co = Cascaded(collision, id) /\ n = Replaced(activeUsers)
        /\ fr = freed' /\ orph = orphaned'
  OBVIOUS
<1>8. /\ userRow' \in UserRows /\ collision' \in Collisions /\ activeUsers' \in Nat
      /\ RowsGood(userRow', collision', fr, orph, UserIDs) /\ HeldOnce(userRow', UserIDs)
      /\ userRow'[id] # NoUser
      /\ Has(userRow', id) => userRow'[id].at = p.at
      /\ \A u \in UserIDs \ {id} :
           /\ Has(userRow', u) <=> Has(us, u)
           /\ userRow'[u] = NoUser <=> us[u] = NoUser
           /\ Has(us, u) => userRow'[u].at = us[u].at
           /\ us[u] = NoUser => collision'[u] = co[u]
      /\ n = Cardinality(Present(us)) => activeUsers' = Cardinality(Present(userRow'))
  <2>1. /\ us \in UserRows /\ co \in Collisions /\ us[id] = NoUser
        /\ RowsGood(us, co, fr, orph, UserIDs \ {id})
    BY <1>3, <1>6, <1>7
  <2>1a. HeldOnce(us, UserIDs \ {id})
    BY <1>6, <1>7 DEF HeldOnce
  <2>2. n \in Nat
    BY <1>2, <1>7 DEF Replaced, Less
  <2>3. InsertedWithout(j, us, co, n, fr)
    <3>1. Insert(j, us, co, n, leftIds \ {id})
      BY <1>3, <1>7
    <3>2. j.profile.id \notin leftIds \ {id}
      BY <1>1
    <3>3. QED
      BY <3>1, <3>2 DEF InsertedWithout
  <2>4. j.profile = p /\ p.id = id
    BY <1>1
  <2>5. QED
    BY <2>1, <2>1a, <2>2, <2>3, <2>4, AccountInserted
<1>9. OthersTyped'
  <2>1. freed' \subseteq Usernames \cup {"none"}
    BY <1>2, <1>4, <1>5 DEF OthersTyped
  <2>2. newest' \in [UserIDs -> 0 .. Moment]
    BY <1>2, <1>5 DEF OthersTyped
  <2>3. /\ unclaimed' \subseteq UserIDs /\ ongoing' \subseteq UserIDs /\ leftIds' \subseteq UserIDs
        /\ stale' \subseteq UserIDs /\ orphaned' \subseteq UserIDs
    BY <1>2, <1>3, <1>4 DEF OthersTyped
  <2>4. QED
    BY <1>2, <1>4, <2>1, <2>2, <2>3, SaveDoneTyped DEF OthersTyped
<1>10. newest'[id] = p.at /\ \A u \in UserIDs \ {id} : newest'[u] = newest[u]
  BY <1>2, <1>5 DEF OthersTyped
<1>11. \A u \in UserIDs \ {id} :
        /\ Has(userRow', u) <=> Has(userRow, u)
        /\ userRow'[u] = NoUser => collision'[u] = NoCollision
        /\ Has(userRow, u) => userRow'[u].at = userRow[u].at
  <2>1. \A u \in UserIDs : rows[u] = NoUser /\ u # id => Cascaded(collision, id)[u] = NoCollision
    BY <1>2, <1>6 DEF Cascaded
  <2>2. QED
    BY <1>6, <1>7, <1>8, <2>1
<1>12. stale' = {} => activeUsers' = Cardinality(Present(userRow'))
  <2> SUFFICES ASSUME stale' = {} PROVE activeUsers' = Cardinality(Present(userRow'))
    OBVIOUS
  <2>1. stale = {} /\ userRow[id].at = j.seen
    BY <1>4
  <2>2. Has(userRow, id) /\ ~Has(rows, id)
    BY <1>4, <1>6, <2>1 DEF Has
  <2>3. PICK olds : olds = userRow
    OBVIOUS
  <2>4. Cardinality(Present(rows)) = Less(Cardinality(Present(olds)))
    BY <1>6, <2>2, <2>3, PresentCounts
  <2>5. n = Cardinality(Present(us))
    BY <1>2, <1>7, <2>1, <2>3, <2>4 DEF Replaced
  <2>6. QED
    BY <1>8, <2>5
<1>13. RowsGood(userRow', collision', freed', orphaned', UserIDs) /\ stale \subseteq stale'
  BY <1>4, <1>7, <1>8
<1>14. QED
  BY <1>8, <1>9, <1>10, <1>11, <1>12, <1>13, OneRowRenewed

LEMMA SaveUpdatesStep ==
    ASSUME AccountsInv, NEW w \in Savers, SaveUpdates(w)
    PROVE  AccountsInv'
<1>0. PICK j : j = saving[w]
  OBVIOUS
<1>1. PICK p \in Saved, id \in UserIDs : j.profile = p /\ p.id = id /\ j.seen \in 0 .. Moment
  <2>1. saving[w].profile \in Saved /\ saving[w].seen \in 0 .. Moment
    BY InvGives, SaveHolds DEF SaveUpdates
  <2>2. saving[w].profile.id \in UserIDs
    BY <2>1, SavedProfiles
  <2>3. QED
    BY <1>0, <2>1, <2>2
<1>2. /\ userRow \in UserRows /\ collision \in Collisions /\ activeUsers \in Nat /\ OthersTyped
      /\ \A u \in UserIDs : userRow[u] = NoUser => collision[u] = NoCollision
      /\ RowsGood(userRow, collision, freed, orphaned, UserIDs) /\ HeldOnce(userRow, UserIDs)
      /\ \A u \in UserIDs \ stale : Has(userRow, u) => userRow[u].at = newest[u]
      /\ stale = {} => activeUsers = Cardinality(Present(userRow))
  BY InvGives
<1>3. /\ userRow[id] # NoUser /\ j.seen > 0
      /\ newest' = [newest EXCEPT ![id] = IF p.at > @ THEN p.at ELSE @]
      /\ stale' = IF userRow[id].at # j.seen THEN stale \cup {id} ELSE stale
      /\ Claimed(j, FALSE) /\ SaveDone(w) /\ UNCHANGED <<leftIds, orphaned>>
  BY <1>0, <1>1 DEF SaveUpdates, SameRow, OnRecord
<1>4. /\ p.at \in 1 .. Moment /\ p.name \in Usernames /\ userRow[id] \in Accounts
      /\ userRow[id].name \in Usernames \cup {"none"}
  <2>1. userRow[id] \in Accounts
    BY <1>2, <1>3 DEF UserRows
  <2>2. QED
    BY <2>1, SavedProfiles DEF Accounts
<1>5. /\ newest'[id] = IF p.at > newest[id] THEN p.at ELSE newest[id]
      /\ \A u \in UserIDs \ {id} : newest'[u] = newest[u]
      /\ newest' \in [UserIDs -> 0 .. Moment] /\ newest[id] \in 0 .. Moment
  BY <1>2, <1>3, <1>4 DEF OthersTyped
<1>6. id \notin stale' =>
        Has(userRow, id) /\ userRow[id].at = j.seen /\ newest[id] = j.seen
  BY <1>2, <1>3 DEF Has
<1>7. stale' = {} => stale = {} /\ id \notin stale'
  BY <1>3
<1>8. ASSUME freed' \subseteq Usernames \cup {"none"}
      PROVE  OthersTyped'
  <2>1. unclaimed' \subseteq UserIDs /\ ongoing' \subseteq UserIDs
    BY <1>1, <1>2, <1>3 DEF OthersTyped, Claimed
  <2>2. QED
    BY <1>2, <1>3, <1>5, <1>8, <2>1, SaveDoneTyped DEF OthersTyped
<1>9. CASE SignedLater(p, j.seen)
  <2>1. PICK us, co, fr, orph, name, at :
            /\ us = userRow /\ co = collision /\ fr = freed' /\ orph = orphaned
            /\ name = p.name /\ at = p.at
    OBVIOUS
  <2>2. PICK c : c = ClaimName(us, co, id, name, at)
    OBVIOUS
  <2>3. /\ us \in UserRows /\ co \in Collisions /\ name \in Usernames /\ at \in 1 .. Moment
        /\ at \in 0 .. Moment /\ us[id] # NoUser
    BY <1>2, <1>3, <1>4, <2>1
  <2>4. /\ c.name \in Usernames \cup {"none"} /\ c.rows \in UserRows
        /\ c.rows[id] # NoUser
    BY <2>2, <2>3, ClaimKeepsShapes
  <2>5. PICK r \in Accounts : r = c.rows[id]
    BY <2>4 DEF UserRows
  <2>6. PICK a : a = [r EXCEPT !.name = c.name, !.at = at, !.says = name]
    OBVIOUS
  <2>7. a \in Accounts /\ a.name = c.name /\ a.at = at /\ a.says = name
    BY <2>3, <2>4, <2>6 DEF Accounts
  <2>8. [c.rows EXCEPT ![id].name = c.name, ![id].at = p.at, ![id].says = p.name] = Written(c, id, a)
    BY <2>1, <2>4, <2>5, <2>6 DEF Written, UserRows
  <2>9. /\ userRow' = Settle(Written(c, id, a), id, leftIds) /\ collision' = c.lost
        /\ activeUsers' = IF id \in leftIds THEN Less(activeUsers) ELSE activeUsers
        /\ freed' = freed \cup {userRow[id].name} \cup GivenUp(j)
    BY <1>0, <1>1, <1>9, <2>1, <2>2, <2>8 DEF SaveUpdates
  <2>10. RowsGood(us, co, fr, orph, UserIDs)
    <3>1. freed \subseteq freed' /\ orphaned \subseteq orphaned
      BY <2>9
    <3>2. QED
      BY <1>2, <2>1, <3>1, MoreIsExcused
  <2>11. RowsGood(us, co, fr, orph, UserIDs \ {id}) /\ HeldOnce(us, UserIDs \ {id})
    <3>1. us[id].name \in fr /\ HeldOnce(us, UserIDs)
      BY <1>2, <2>1, <2>9
    <3>2. QED
      BY <2>3, <2>10, <3>1, FewerIds
  <2>12. id \in leftIds => name \in fr
    BY <1>1, <2>1, <2>9 DEF GivenUp
  <2>13. PICK written, rows : written = Written(c, id, a) /\ rows = Settle(written, id, leftIds)
    OBVIOUS
  <2>14. /\ rows \in UserRows /\ c.lost \in Collisions
         /\ RowsGood(rows, c.lost, fr, orph, UserIDs) /\ HeldOnce(rows, UserIDs)
         /\ rows[id] # NoUser
         /\ Has(rows, id) <=> id \notin leftIds
         /\ Has(rows, id) => rows[id].at = at
         /\ \A u \in UserIDs \ {id} :
              /\ Has(rows, u) <=> Has(us, u)
              /\ rows[u] = NoUser <=> us[u] = NoUser
              /\ Has(us, u) => rows[u].at = us[u].at
              /\ us[u] = NoUser => c.lost[u] = co[u]
    <3>1. /\ written = Written(c, id, a)
          /\ rows = IF id \in leftIds /\ Has(written, id) THEN TakenAway(written, id) ELSE written
      BY <2>13, SettleIs
    <3>2. rows = written \/ (rows = TakenAway(written, id) /\ name \in fr)
      BY <2>12, <3>1
    <3>3. /\ rows \in UserRows /\ c.lost \in Collisions
          /\ RowsGood(rows, c.lost, fr, orph, UserIDs) /\ HeldOnce(rows, UserIDs)
          /\ rows[id] # NoUser
          /\ rows = written => Has(rows, id)
          /\ rows = TakenAway(written, id) => ~Has(rows, id)
          /\ Has(rows, id) => rows[id].at = at
          /\ \A u \in UserIDs \ {id} :
               /\ Has(rows, u) <=> Has(us, u)
               /\ rows[u] = NoUser <=> us[u] = NoUser
               /\ Has(us, u) => rows[u].at = us[u].at
               /\ us[u] = NoUser => c.lost[u] = co[u]
      BY <2>2, <2>3, <2>7, <2>11, <3>1, <3>2, ProfileWritten
    <3>4. QED
      BY <3>1, <3>3
  <2>15. OthersTyped'
    <3>1. freed' \subseteq Usernames \cup {"none"}
      BY <1>1, <1>2, <1>4, <2>9 DEF OthersTyped, GivenUp
    <3>2. QED
      BY <1>8, <3>1
  <2>16. userRow' = rows /\ collision' = c.lost /\ activeUsers' \in Nat
    BY <1>2, <2>9, <2>13 DEF Less
  <2>17. stale' = {} => activeUsers' = Cardinality(Present(userRow'))
    <3>1. /\ Has(us, id) /\ ~Has(rows, id) =>
                Cardinality(Present(rows)) = Less(Cardinality(Present(us)))
          /\ (Has(rows, id) <=> Has(us, id)) => Present(rows) = Present(us)
      BY <2>14, PresentCounts
    <3>2. QED
      BY <1>2, <1>6, <1>7, <2>1, <2>9, <2>14, <2>16, <3>1
  <2>18. Has(userRow', id) /\ id \notin stale' => userRow'[id].at = newest'[id]
    BY <1>1, <1>5, <1>6, <1>9, <2>1, <2>3, <2>14, <2>16 DEF SignedLater
  <2>19. \A u \in UserIDs \ {id} :
            /\ Has(userRow', u) <=> Has(userRow, u)
            /\ userRow'[u] = NoUser => collision'[u] = NoCollision
            /\ Has(userRow, u) => userRow'[u].at = userRow[u].at
    BY <1>2, <2>1, <2>14, <2>16
  <2>20. /\ userRow' \in UserRows /\ collision' \in Collisions /\ userRow'[id] # NoUser
         /\ RowsGood(userRow', collision', freed', orphaned', UserIDs) /\ HeldOnce(userRow', UserIDs)
    BY <1>3, <2>1, <2>14, <2>16
  <2>21. stale \subseteq stale'
    BY <1>3
  <2>22. QED
    BY <1>5, <2>15, <2>16, <2>17, <2>18, <2>19, <2>20, <2>21, OneRowRenewed
<1>10. CASE ~SignedLater(p, j.seen)
  <2>1. UNCHANGED <<userRow, collision, activeUsers, freed>>
    BY <1>0, <1>1, <1>10 DEF SaveUpdates
  <2>2. OthersTyped'
    BY <1>2, <1>8, <2>1 DEF OthersTyped
  <2>3. Has(userRow', id) /\ id \notin stale' => userRow'[id].at = newest'[id]
    BY <1>1, <1>4, <1>5, <1>6, <1>10, <2>1 DEF SignedLater
  <2>4. \A u \in UserIDs \ {id} :
            /\ Has(userRow', u) <=> Has(userRow, u)
            /\ userRow'[u] = NoUser => collision'[u] = NoCollision
            /\ Has(userRow, u) => userRow'[u].at = userRow[u].at
    BY <1>2, <2>1 DEF Has
  <2>5. /\ userRow' \in UserRows /\ collision' \in Collisions /\ userRow'[id] # NoUser
        /\ RowsGood(userRow', collision', freed', orphaned', UserIDs) /\ HeldOnce(userRow', UserIDs)
        /\ activeUsers' \in Nat /\ stale \subseteq stale'
    BY <1>2, <1>3, <2>1
  <2>6. stale' = {} => activeUsers' = Cardinality(Present(userRow'))
    BY <1>2, <1>7, <2>1
  <2>7. QED
    BY <1>5, <2>2, <2>3, <2>4, <2>5, <2>6, OneRowRenewed
<1>11. QED
  BY <1>9, <1>10

LEMMA JoinStep ==
    ASSUME AccountsInv, NEW p \in Joins, Join(p)
    PROVE  AccountsInv'
<1>1. PICK id \in UserIDs : p.id = id
  BY SavedProfiles
<1>2. /\ userRow \in UserRows /\ collision \in Collisions /\ activeUsers \in Nat /\ OthersTyped
      /\ \A u \in UserIDs : userRow[u] = NoUser => collision[u] = NoCollision
      /\ RowsGood(userRow, collision, freed, orphaned, UserIDs) /\ HeldOnce(userRow, UserIDs)
      /\ stale = {} => activeUsers = Cardinality(Present(userRow))
  BY InvGives
<1>3. PICK a : a = [key |-> p.key, name |-> p.name, at |-> p.at, says |-> p.name, since |-> p.since]
  OBVIOUS
<1>4. /\ a \in Accounts /\ a.name = p.name /\ a.at = p.at /\ a.says = p.name /\ p.at \in 1 .. Moment
      /\ p.name \in Usernames
  <2>1. /\ p.key \in KeyNests /\ p.since \in 1 .. Moment /\ p.at \in 1 .. Moment
        /\ p.at \in 0 .. Moment /\ p.name \in Usernames
    BY SavedProfiles
  <2>2. QED
    BY <1>3, <2>1 DEF Accounts
<1>5. /\ userRow' = [userRow EXCEPT ![id] = a] /\ activeUsers' = activeUsers + 1
      /\ newest' = [newest EXCEPT ![id] = p.at] /\ HoldersOf(userRow, p.name, id) = {}
      /\ userRow[id] = NoUser
      /\ UNCHANGED <<collision, leftIds, unclaimed, ongoing, saving, stale, freed, orphaned>>
  BY <1>1, <1>3 DEF Join, NameFree, OnRecord
<1>6. userRow' \in UserRows /\ userRow'[id] = a /\ \A u \in UserIDs \ {id} : userRow'[u] = userRow[u]
  BY <1>2, <1>4, <1>5 DEF UserRows
<1>7. ~Has(userRow, id) /\ Has(userRow', id) /\ userRow'[id] # NoUser
  BY <1>4, <1>5, <1>6, NotNone DEF Has
<1>8. RowsGood(userRow', collision', freed', orphaned', UserIDs)
  <2>1. collision'[id] = NoCollision
    BY <1>2, <1>5
  <2>2. \A u \in UserIDs : Has(userRow, u) => u # id /\ userRow'[u] = userRow[u] /\ Has(userRow', u)
    BY <1>6, <1>7 DEF Has
  <2>3. ASSUME NEW u \in UserIDs, Has(userRow', u)
        PROVE  RowGood(userRow', collision', freed', orphaned', UserIDs, u)
    <3>1. CASE u = id
      BY <1>4, <1>6, <2>1, <3>1, NotNone DEF RowGood
    <3>2. CASE u # id
      <4>1. Has(userRow, u) /\ userRow'[u] = userRow[u]
        BY <1>6, <2>3, <3>2 DEF Has
      <4>2. RowGood(userRow, collision, freed, orphaned, UserIDs, u)
        BY <1>2 DEF RowsGood
      <4>3. ASSUME userRow[u].name = "none", userRow[u].says \notin freed
            PROVE  \E h \in UserIDs :
                    /\ Has(userRow', h) /\ userRow'[h].name = userRow'[u].says
                    /\ ClaimRank(userRow'[h].at) >= ClaimRank(userRow'[u].at)
        <5>1. PICK h \in UserIDs :
                    /\ Has(userRow, h) /\ userRow[h].name = userRow[u].says
                    /\ ClaimRank(userRow[h].at) >= ClaimRank(userRow[u].at)
          BY <4>1, <4>2, <4>3 DEF RowGood
        <5>2. userRow'[h] = userRow[h] /\ Has(userRow', h)
          BY <2>2, <5>1
        <5>3. QED
          BY <4>1, <5>1, <5>2
      <4>4. collision' = collision /\ freed' = freed /\ orphaned' = orphaned
        BY <1>5
      <4>5. /\ userRow[u].name # "none" => userRow[u].name = userRow[u].says
            /\ collision[u] # NoCollision =>
                    userRow[u].name = "none" /\ collision[u].name = userRow[u].says
            /\ userRow[u].name = "none" /\ u \notin orphaned => collision[u] # NoCollision
        BY <4>1, <4>2 DEF RowGood
      <4>6. QED
        BY <4>1, <4>3, <4>4, <4>5 DEF RowGood
    <3>3. QED
      BY <3>1, <3>2
  <2>4. QED
    BY <2>3 DEF RowsGood, RowGood
<1>9. HeldOnce(userRow', UserIDs)
  <2>1. \A u \in UserIDs \ {id} : Has(userRow', u) => Has(userRow, u) /\ userRow[u].name # p.name
    BY <1>5, <1>6 DEF HoldersOf, Has
  <2>2. QED
    BY <1>2, <1>4, <1>6, <2>1 DEF HeldOnce
<1>10. OthersTyped' /\ newest'[id] = p.at /\ \A u \in UserIDs \ {id} : newest'[u] = newest[u]
  BY <1>2, <1>4, <1>5 DEF OthersTyped
<1>11. stale' = {} => activeUsers' = Cardinality(Present(userRow'))
  <2>1. PICK us, rows : us = userRow /\ rows = userRow'
    OBVIOUS
  <2>2. Cardinality(Present(rows)) = Cardinality(Present(us)) + 1
    <3>1. \A u \in UserIDs \ {id} : Has(rows, u) <=> Has(us, u)
      BY <1>6, <2>1 DEF Has
    <3>2. QED
      BY <1>7, <2>1, <3>1, PresentCounts
  <2>3. QED
    BY <1>2, <1>5, <2>1, <2>2
<1>12. /\ activeUsers' \in Nat /\ stale \subseteq stale' /\ collision' \in Collisions
       /\ Has(userRow', id) /\ id \notin stale' => userRow'[id].at = newest'[id]
       /\ \A u \in UserIDs \ {id} :
            /\ Has(userRow', u) <=> Has(userRow, u)
            /\ userRow'[u] = NoUser => collision'[u] = NoCollision
            /\ Has(userRow, u) => userRow'[u].at = userRow[u].at
  BY <1>2, <1>4, <1>5, <1>6, <1>10 DEF Has
<1>13. QED
  BY <1>6, <1>7, <1>8, <1>9, <1>10, <1>11, <1>12, OneRowRenewed

LEMMA UpdateProfileStep ==
    ASSUME AccountsInv, NEW id \in UserIDs, NEW name \in Usernames, UpdateProfile(id, name)
    PROVE  AccountsInv'
<1>2. /\ userRow \in UserRows /\ collision \in Collisions /\ activeUsers \in Nat /\ OthersTyped
      /\ \A u \in UserIDs : userRow[u] = NoUser => collision[u] = NoCollision
      /\ RowsGood(userRow, collision, freed, orphaned, UserIDs) /\ HeldOnce(userRow, UserIDs)
      /\ stale = {} => activeUsers = Cardinality(Present(userRow))
  BY InvGives
<1>3. Has(userRow, id) /\ userRow[id] \in Accounts /\ Moment \in 0 .. Moment /\ Moment > 0
  <2>1. Has(userRow, id) /\ userRow[id] \in Accounts
    BY <1>2 DEF UpdateProfile, Has, UserRows
  <2>2. userRow[id].at \in 0 .. Moment /\ userRow[id].at > 0
    BY <2>1 DEF Has, Accounts
  <2>3. QED
    BY <2>1, <2>2, RecoveredAssumption
<1>3a. PICK r \in Accounts : r = userRow[id]
  BY <1>3
<1>4. PICK a : a = [r EXCEPT !.name = name, !.says = name, !.at = Moment]
  OBVIOUS
<1>5. a \in Accounts /\ a.name = name /\ a.at = Moment /\ a.says = name
  BY <1>3, <1>3a, <1>4 DEF Accounts
<1>6. /\ userRow' = [userRow EXCEPT ![id] = a] /\ collision' = [collision EXCEPT ![id] = NoCollision]
      /\ newest' = [newest EXCEPT ![id] = Moment] /\ HoldersOf(userRow, name, id) = {}
      /\ freed' = freed \cup {userRow[id].name}
      /\ UNCHANGED <<leftIds, unclaimed, ongoing, activeUsers, saving, stale, orphaned>>
  BY <1>2, <1>3a, <1>4 DEF UpdateProfile, StoreProfile, NameFree, UserRows
<1>7. userRow' \in UserRows /\ userRow'[id] = a /\ \A u \in UserIDs \ {id} : userRow'[u] = userRow[u]
  BY <1>2, <1>5, <1>6 DEF UserRows
<1>8. /\ collision' \in Collisions /\ collision'[id] = NoCollision
      /\ \A u \in UserIDs \ {id} : collision'[u] = collision[u]
  BY <1>2, <1>6 DEF Collisions
<1>9. Has(userRow', id) /\ userRow'[id] # NoUser
  BY <1>3, <1>5, <1>7, NotNone DEF Has
<1>10. RowsGood(userRow', collision', freed', orphaned', UserIDs)
  <2>1. PICK us, rows, co, fr, orph :
            us = userRow /\ rows = userRow' /\ co = collision /\ fr = freed' /\ orph = orphaned
    OBVIOUS
  <2>2. RowsGood(us, co, fr, orph, UserIDs)
    <3>1. freed \subseteq fr /\ orphaned \subseteq orph
      BY <1>6, <2>1
    <3>2. QED
      BY <1>2, <2>1, <3>1, MoreIsExcused
  <2>3. RowsGood(rows, co, fr, orph, UserIDs \ {id})
    <3>1. /\ us \in UserRows /\ us[id].name \in fr \cup {"none"}
          /\ \A u \in UserIDs \ {id} : rows[u] = us[u]
      BY <1>2, <1>6, <1>7, <2>1
    <3>2. QED
      BY <2>2, <3>1, NameGivenUp
  <2>4. ASSUME NEW u \in UserIDs PROVE RowGood(rows, collision', fr, orph, UserIDs, u)
    <3>1. CASE u = id
      BY <1>5, <1>7, <1>8, <2>1, <3>1, NotNone DEF RowGood
    <3>2. CASE u # id
      BY <1>8, <2>1, <2>3, <3>2 DEF RowsGood, RowGood
    <3>3. QED
      BY <3>1, <3>2
  <2>5. QED
    BY <1>6, <2>1, <2>4 DEF RowsGood
<1>11. HeldOnce(userRow', UserIDs)
  <2>1. \A u \in UserIDs \ {id} : Has(userRow', u) => Has(userRow, u) /\ userRow[u].name # name
    BY <1>6, <1>7 DEF HoldersOf, Has
  <2>2. QED
    BY <1>2, <1>5, <1>7, <2>1 DEF HeldOnce
<1>12. OthersTyped' /\ newest'[id] = Moment /\ \A u \in UserIDs \ {id} : newest'[u] = newest[u]
  <2>1. userRow[id].name \in Usernames \cup {"none"}
    BY <1>3 DEF Accounts
  <2>2. QED
    BY <1>2, <1>3, <1>6, <2>1 DEF OthersTyped
<1>13. /\ activeUsers' \in Nat /\ stale \subseteq stale'
       /\ Has(userRow', id) /\ id \notin stale' => userRow'[id].at = newest'[id]
       /\ \A u \in UserIDs \ {id} :
            /\ Has(userRow', u) <=> Has(userRow, u)
            /\ userRow'[u] = NoUser => collision'[u] = NoCollision
            /\ Has(userRow, u) => userRow'[u].at = userRow[u].at
  BY <1>2, <1>5, <1>6, <1>7, <1>8, <1>12 DEF Has
<1>14. stale' = {} => activeUsers' = Cardinality(Present(userRow'))
  <2>1. Present(userRow') = Present(userRow)
    BY <1>3, <1>9, <1>13 DEF Present
  <2>2. QED
    BY <1>2, <1>6, <2>1
<1>15. QED
  BY <1>7, <1>8, <1>9, <1>10, <1>11, <1>12, <1>13, <1>14, OneRowRenewed

\* The profile of an account is taken away, by a kick, its user or a certificate.
LEMMA ProfileLeaves ==
    ASSUME AccountsInv, OthersTyped', NEW id \in UserIDs, Has(userRow, id),
           userRow' = TakenAway(userRow, id), activeUsers' = Less(activeUsers),
           freed' = freed \cup {userRow[id].name},
           UNCHANGED <<collision, newest, stale, orphaned>>
    PROVE  AccountsInv'
<1>1. /\ userRow \in UserRows /\ collision \in Collisions /\ activeUsers \in Nat
      /\ \A u \in UserIDs : userRow[u] = NoUser => collision[u] = NoCollision
      /\ RowsGood(userRow, collision, freed, orphaned, UserIDs) /\ HeldOnce(userRow, UserIDs)
      /\ stale = {} => activeUsers = Cardinality(Present(userRow))
  BY InvGives
<1>2. PICK us, rows, co, fr, orph :
        us = userRow /\ rows = userRow' /\ co = collision /\ fr = freed' /\ orph = orphaned
  OBVIOUS
<1>3. RowsGood(us, co, fr, orph, UserIDs)
  <2>1. freed \subseteq fr /\ orphaned \subseteq orph
    BY <1>2
  <2>2. QED
    BY <1>1, <1>2, <2>1, MoreIsExcused
<1>4. /\ us \in UserRows /\ Has(us, id) /\ HeldOnce(us, UserIDs) /\ us[id].name \in fr \cup {"none"}
      /\ rows = TakenAway(us, id)
  BY <1>1, <1>2
<1>5. /\ rows \in UserRows /\ ~Has(rows, id) /\ rows[id] # NoUser
      /\ \A u \in UserIDs \ {id} : rows[u] = us[u]
      /\ RowsGood(rows, co, fr, orph, UserIDs) /\ HeldOnce(rows, UserIDs)
  BY <1>3, <1>4, ProfileTakenAway
<1>6. Cardinality(Present(rows)) = Less(Cardinality(Present(us)))
  <2>1. \A u \in UserIDs \ {id} : Has(rows, u) <=> Has(us, u)
    BY <1>5 DEF Has
  <2>2. QED
    BY <1>4, <1>5, <2>1, PresentCounts
<1>7. /\ activeUsers' \in Nat /\ stale \subseteq stale'
      /\ Has(userRow', id) /\ id \notin stale' => userRow'[id].at = newest'[id]
      /\ \A u \in UserIDs \ {id} :
           /\ Has(userRow', u) <=> Has(userRow, u)
           /\ userRow'[u] = NoUser => collision'[u] = NoCollision
           /\ Has(userRow, u) => userRow'[u].at = userRow[u].at
           /\ newest'[u] = newest[u]
      /\ stale' = {} => activeUsers' = Cardinality(Present(userRow'))
  BY <1>1, <1>2, <1>5, <1>6 DEF Has, Less
<1>8. /\ userRow' \in UserRows /\ collision' \in Collisions /\ userRow'[id] # NoUser
      /\ RowsGood(userRow', collision', freed', orphaned', UserIDs) /\ HeldOnce(userRow', UserIDs)
  BY <1>1, <1>2, <1>5
<1>9. QED
  BY <1>7, <1>8, OneRowRenewed

LEMMA NamesOnRecord ==
    ASSUME AccountsInv, NEW id \in UserIDs, Has(userRow, id)
    PROVE  OthersTyped /\ userRow[id].name \in Usernames \cup {"none"}
<1>1. userRow \in UserRows /\ OthersTyped
  BY InvGives
<1>2. QED
  BY <1>1 DEF Has, UserRows, Accounts

LEMMA AccountLeavesStep ==
    ASSUME AccountsInv, NEW id \in UserIDs, AccountLeaves(id)
    PROVE  AccountsInv'
<1>1. Has(userRow, id) /\ OthersTyped /\ userRow[id].name \in Usernames \cup {"none"}
  BY NamesOnRecord DEF AccountLeaves
<1>2. OthersTyped'
  BY <1>1 DEF OthersTyped, AccountLeaves
<1>3. QED
  BY <1>1, <1>2, ProfileLeaves DEF AccountLeaves, TakenAway

LEMMA RestoreRemovalStep ==
    ASSUME AccountsInv, NEW id \in UserIDs, RestoreRemoval(id)
    PROVE  AccountsInv'
<1>1. CASE Has(userRow, id)
  <2>1. OthersTyped /\ userRow[id].name \in Usernames \cup {"none"}
    BY <1>1, NamesOnRecord
  <2>2. OthersTyped'
    BY <1>1, <2>1 DEF OthersTyped, RestoreRemoval
  <2>3. QED
    BY <1>1, <2>2, ProfileLeaves DEF RestoreRemoval, TakenAway
<1>2. CASE ~Has(userRow, id)
  <2>1. OthersTyped
    BY InvGives
  <2>2. OthersTyped'
    BY <1>2, <2>1 DEF OthersTyped, RestoreRemoval
  <2>3. QED
    BY <1>2, <2>2, RowsLeftAlone DEF RestoreRemoval
<1>3. QED
  BY <1>1, <1>2

LEMMA AccountsFirst == RecoveredInit => AccountsInv
<1> SUFFICES ASSUME RecoveredInit PROVE AccountsInv
  OBVIOUS
<1>1. \A u \in UserIDs : userRow[u] = NoUser /\ ~Has(userRow, u)
  BY DEF RecoveredInit, Has
<1>2. RecoveredTypeOK
  BY RecoveredAssumption DEF RecoveredInit, RecoveredTypeOK
<1>3. NoRowNoCollision /\ RowsGood(userRow, collision, freed, orphaned, UserIDs)
  BY <1>1 DEF RecoveredInit, NoRowNoCollision, RowsGood, RowGood
<1>4. HeldOnce(userRow, UserIDs)
  BY <1>1 DEF HeldOnce
<1>5. Present(userRow) = {}
  BY <1>1 DEF Present
<1>6. ProfilesSettle
  BY <1>1, <1>5, FS_EmptySet
     DEF RecoveredInit, ProfilesSettle, NewestProfileUnlessStale, ActiveUsersCountedUnlessStale, Present
<1>7. QED
  BY <1>2, <1>3, <1>4, <1>6 DEF AccountsInv

LEMMA AccountsNext == AccountsInv /\ [RecoveredNext]_recoveredVars => AccountsInv'
<1> SUFFICES ASSUME AccountsInv, [RecoveredNext]_recoveredVars PROVE AccountsInv'
  OBVIOUS
<1>1. ASSUME NEW w \in Savers, NEW p \in Saved, ClaimIdentity(w, p) \/ ReportPeerIdentity(w, p)
      PROVE  AccountsInv'
  BY <1>1, SaveReadsStep DEF ClaimIdentity, ReportPeerIdentity
<1>2. CASE UNCHANGED recoveredVars
  <2>1. OthersTyped'
    BY <1>2, InvGives DEF OthersTyped, recoveredVars
  <2>2. QED
    BY <1>2, <2>1, RowsLeftAlone DEF recoveredVars
<1>3. QED
  BY <1>1, <1>2, SaveCreatesStep, SaveRemovedStep, SaveUpdatesStep, SaveReplacesStep,
     SaveRefusedStep,
     JoinStep, CompleteImportStep, AccountLeavesStep, RestoreRemovalStep, UpdateProfileStep
     DEF RecoveredNext

\* What the invariant is for.
LEMMA AccountsInvMeans == AccountsInv => AccountsSettle
<1> SUFFICES ASSUME AccountsInv PROVE AccountsSettle
  OBVIOUS
<1>1. RowsGood(userRow, collision, freed, orphaned, UserIDs) /\ HeldOnce(userRow, UserIDs)
  BY InvGives
<1>2. NamesAreHeldOnce
  BY <1>1 DEF HeldOnce, NamesAreHeldOnce
<1>3. NameToTheBestUnlessFreed /\ NamelessKnowsWhyUnlessOrphaned
  BY <1>1 DEF RowsGood, RowGood, NameToTheBestUnlessFreed, NamelessKnowsWhyUnlessOrphaned
<1>4. QED
  BY <1>2, <1>3 DEF AccountsInv, AccountsSettle, NamesSettle

\* Whatever devices report, in whatever order, and whatever is done meanwhile:
\* the newest profile wins, accounts are counted once, a name is held once, by
\* the best claim, and the others have the record that says so.
THEOREM AccountsAlwaysSettle == RecoveredSpec => []AccountsSettle
<1>1. AccountsInv /\ [RecoveredNext]_recoveredVars => AccountsInv'
  BY AccountsNext
<1>2. QED
  BY <1>1, AccountsFirst, AccountsInvMeans, PTL DEF RecoveredSpec

=============================================================================
