---------------------------- MODULE AccessProofs ----------------------------
(*****************************************************************************)
(* What a ticket buys, how often a code works, how many answers are tried and *)
(* what makes an administrator, for any browsers, passkeys, users and limits. *)
(*****************************************************************************)
EXTENDS SignIn, Accounts, TLAPS

-----------------------------------------------------------------------------
(* A ticket that has bought its session is gone, and stays gone.            *)
Spent == [purpose |-> "gone"]
TicketsInv ==
  /\ tickets = [k \in TicketIds |-> tickets[k]]
  /\ sessions \in [TicketIds -> {0, 1}]
  /\ \A k \in TicketIds : sessions[k] = 1 => tickets[k] = Spent

(* Every ticket is as it was, or is one that was issued and changes, or is  *)
(* issued now.                                                              *)
TicketsMove ==
  /\ tickets' = [k \in TicketIds |-> tickets'[k]]
  /\ \A k \in TicketIds :
       tickets'[k] \in {tickets[k], Spent} \/ Issued(k) \/ tickets[k] = NoTicket

LEMMA SpentIsNotIssued == \A k : tickets[k] = Spent => ~Issued(k) /\ tickets[k] # NoTicket
BY SignInAssumption DEF Spent, Issued

LEMMA MoveKeepsSpent ==
  ASSUME TicketsInv, TicketsMove,
         \/ UNCHANGED sessions
         \/ \E k : /\ Issued(k) /\ sessions' = [sessions EXCEPT ![k] = @ + 1]
                   /\ tickets' = Gone(k)
  PROVE  TicketsInv'
<1>1. \A k \in TicketIds : tickets[k] = Spent => tickets'[k] = Spent
  BY SpentIsNotIssued DEF TicketsMove
<1>2. CASE UNCHANGED sessions
  BY <1>1, <1>2 DEF TicketsInv, TicketsMove
<1>3. ASSUME NEW k, Issued(k), sessions' = [sessions EXCEPT ![k] = @ + 1],
             tickets' = Gone(k)
      PROVE  TicketsInv'
  <2>1. CASE k \in TicketIds
    <3>1. sessions[k] = 0 /\ tickets'[k] = Spent
      BY <1>3, <2>1, SpentIsNotIssued DEF TicketsInv, Gone, Spent
    <3>2. sessions' = [sessions EXCEPT ![k] = 1]
      BY <1>3, <3>1
    <3>. QED BY <1>1, <2>1, <3>1, <3>2 DEF TicketsInv, TicketsMove
  <2>2. CASE k \notin TicketIds
    <3>1. UNCHANGED sessions
      BY <1>3, <2>2 DEF TicketsInv
    <3>. QED BY <1>2, <3>1
  <2>. QED BY <2>1, <2>2
<1>. QED BY <1>2, <1>3

(* Issuing a ticket deletes the expired ones and touches no other.          *)
LEMMA IssueMoves ==
  ASSUME TicketsInv, NEW k \in TicketIds, NEW p, NEW c, Issue(k, p, c)
  PROVE  TicketsMove
<1>1. tickets[k] = NoTicket
  BY DEF Issue, Unissued, TicketIds
<1>. QED BY <1>1 DEF Issue, TicketsMove, Spent

(* Nor does anything else that is done with an issued one.                  *)
LEMMA IssuedMoves ==
  ASSUME TicketsInv, NEW k, Issued(k), NEW t, tickets' = [tickets EXCEPT ![k] = t]
  PROVE  TicketsMove
BY DEF TicketsInv, TicketsMove

LEMMA TicketsStep == TicketsInv /\ [SignInNext]_signInVars => TicketsInv'
<1>. SUFFICES ASSUME TicketsInv, [SignInNext]_signInVars
              PROVE  TicketsInv'
  OBVIOUS
<1>. USE DEF proofs, rest
<1>1. CASE UNCHANGED <<tickets, sessions>>
  BY <1>1 DEF TicketsInv
<1>2. ASSUME NEW k \in TicketIds, Login(k) \/ PasskeyRegistrationOptions(k)
      PROVE  TicketsInv'
  <2>1. (\E p, c : Issue(k, p, c)) /\ UNCHANGED sessions
    BY <1>2 DEF Login, PasskeyRegistrationOptions
  <2>. QED BY <2>1, IssueMoves, MoveKeepsSpent
<1>3. ASSUME NEW k \in TicketIds,
             \/ PasskeyOptions(k) \/ SettingsPasskey(k) \/ SetupTotp(k)
             \/ SetupPasskeyOptions(k) \/ SetupPasskey(k)
      PROVE  TicketsInv'
  <2>1. /\ Issued(k) /\ UNCHANGED sessions
        /\ \E t : tickets' = [tickets EXCEPT ![k] = t]
    BY <1>3 DEF PasskeyOptions, SettingsPasskey, SetupTotp, SetupPasskeyOptions,
                SetupPasskey, ConfirmTotp, AddPasskey, Writes, SetupDone, Gone,
                Found, Live
  <2>. QED BY <2>1, IssuedMoves, MoveKeepsSpent
<1>4. ASSUME NEW b \in Browsers, Accept(b) \/ ConsumeSetup(b)
      PROVE  TicketsInv'
  <2>. DEFINE k == request[b].ticket
  <2>1. CASE Issued(k)
    <3>1. tickets' = Gone(k) /\ sessions' = [sessions EXCEPT ![k] = @ + 1]
      BY <1>4, <2>1 DEF Accept, ConsumeSetup
    <3>. QED BY <2>1, <3>1, IssuedMoves, MoveKeepsSpent DEF Gone
  <2>2. CASE ~Issued(k)
    BY <1>1, <1>4, <2>2 DEF Accept, ConsumeSetup
  <2>. QED BY <2>1, <2>2
<1>5. ASSUME NEW b \in Browsers, Reject(b)
      PROVE  TicketsInv'
  <2>. DEFINE k == request[b].ticket
  <2>1. UNCHANGED sessions
    BY <1>5 DEF Reject
  <2>2. CASE request[b].answer.kind = "passkey"
    <3>1. Issued(k) /\ \E t : tickets' = [tickets EXCEPT ![k] = t]
      BY <1>5, <2>2 DEF Reject, NoChallenge
    <3>. QED BY <2>1, <3>1, IssuedMoves, MoveKeepsSpent
  <2>3. CASE request[b].answer.kind # "passkey"
    BY <1>1, <1>5, <2>1, <2>3 DEF Reject
  <2>. QED BY <2>2, <2>3
<1>6. CASE Reset
  <2>1. TicketsMove /\ UNCHANGED sessions
    BY <1>6 DEF Reset, Writes, TicketsMove, Spent
  <2>. QED BY <2>1, MoveKeepsSpent
<1>7. ASSUME NEW b \in Browsers,
             \/ Guard(b) \/ Refuse(b)
             \/ \E k \in TicketIds : Verify(b, k) \/ FinishSetup(b, k)
      PROVE  TicketsInv'
  BY <1>1, <1>7 DEF Guard, EnterWith, Refuse, Verify, FinishSetup
<1>8. CASE \/ BeginTotp \/ SettingsTotp \/ RemoveTotp \/ RemovePasskey
           \/ RegenerateCodes \/ SetRequired \/ Tick \/ UNCHANGED signInVars
  BY <1>1, <1>8 DEF BeginTotp, SettingsTotp, ConfirmTotp, RemoveTotp, RemovePasskey,
        RegenerateCodes, SetRequired, Tick, Writes, signInVars
<1>. QED BY <1>2, <1>3, <1>4, <1>5, <1>6, <1>7, <1>8 DEF SignInNext

(* A ticket buys one session at most, whoever presents it and however often *)
(* at once.                                                                 *)
THEOREM TicketBuysOne == SignInSpec => []TicketBuysOneSession
<1>1. SignInInit => TicketsInv
  BY DEF SignInInit, TicketsInv
<1>2. TicketsInv => TicketBuysOneSession
  BY DEF TicketsInv, TicketBuysOneSession
<1>. QED BY <1>1, <1>2, TicketsStep, PTL DEF SignInSpec

-----------------------------------------------------------------------------
(* The row of the account and what the browsers wait for.                   *)
UserRow == [secret : Nat, confirmed : BOOLEAN, last_step : Nat, spent : BOOLEAN,
            generated : BOOLEAN, failed : Nat, locked_until : Nat]
TryAnswers == Totp \cup Code \cup Signature \cup {Wrong}
TriesAsked == [at : {"found", "guarded"}, ticket : TicketIds, answer : TryAnswers, now : Nat]
Finishing == [at : {"finishing"}, ticket : TicketIds]

AccountTyped ==
  /\ now \in Nat /\ tries \in Nat
  /\ two_step \in UserRow
  /\ made \in [secrets : Nat, sets : Nat]
  /\ request \in [Browsers -> {AtRest} \cup TriesAsked \cup Finishing]

(* Whoever checks an answer has the lock, and finds no pause and a count    *)
(* that may grow; and the count is at least that of the wrong answers.      *)
CountIsKept ==
  /\ tries <= two_step.failed /\ two_step.failed <= MaxFailures
  /\ two_step.failed = MaxFailures => two_step.locked_until # 0
LockIsHeld ==
  /\ \A b \in Browsers : request[b].at = "guarded" => holder = b
  /\ holder # Nobody => two_step.locked_until = 0 /\ two_step.failed < MaxFailures

AttemptsInv == AccountTyped /\ CountIsKept /\ LockIsHeld

Counts(row) == <<row.failed, row.locked_until>>

(* Everything but taking the lock and giving it back leaves the count as it *)
(* is, or clears it.                                                        *)
LEMMA CountStays ==
  ASSUME AttemptsInv, AccountTyped', UNCHANGED holder,
         \A b \in Browsers : request'[b].at = "guarded" => request[b].at = "guarded",
         \/ Counts(two_step)' = Counts(two_step) /\ UNCHANGED tries
         \/ Counts(two_step)' = <<0, 0>> /\ tries' = 0
  PROVE  AttemptsInv'
<1>1. \/ /\ two_step'.failed = two_step.failed
         /\ two_step'.locked_until = two_step.locked_until /\ tries' = tries
      \/ two_step'.failed = 0 /\ two_step'.locked_until = 0 /\ tries' = 0
  BY DEF Counts
<1>. QED BY <1>1, SignInAssumption
         DEF AttemptsInv, AccountTyped, CountIsKept, LockIsHeld, UserRow

(* The answer of the one that has the lock is checked, and the lock freed.  *)
LEMMA LockFreed ==
  ASSUME AttemptsInv, NEW b \in Browsers, request[b].at = "guarded", Release(b),
         UNCHANGED <<now, made>>, two_step' \in UserRow, tries' \in Nat,
         \/ Counts(two_step)' = Counts(two_step) /\ UNCHANGED tries
         \/ Counts(two_step)' = <<0, 0>> /\ tries' = 0
         \/ /\ tries' = tries + 1 /\ two_step'.failed = two_step.failed + 1
            /\ two_step.failed + 1 >= MaxFailures => two_step'.locked_until # 0
  PROVE  AttemptsInv'
<1>1. /\ request' = [request EXCEPT ![b] = AtRest] /\ holder' = Nobody
  BY DEF Release, Ask
<1>2. AccountTyped'
  BY <1>1 DEF AttemptsInv, AccountTyped
<1>3. LockIsHeld'
  BY <1>1, SignInAssumption DEF AttemptsInv, AccountTyped, LockIsHeld, AtRest
<1>4. /\ two_step.failed \in Nat /\ tries \in Nat /\ tries <= two_step.failed
      /\ two_step.failed < MaxFailures /\ two_step'.failed \in Nat
  BY SignInAssumption DEF AttemptsInv, AccountTyped, LockIsHeld, CountIsKept, UserRow
<1>5. \/ /\ two_step'.failed = two_step.failed
         /\ two_step'.locked_until = two_step.locked_until /\ tries' = tries
      \/ two_step'.failed = 0 /\ two_step'.locked_until = 0 /\ tries' = 0
      \/ /\ tries' = tries + 1 /\ two_step'.failed = two_step.failed + 1
         /\ two_step.failed + 1 >= MaxFailures => two_step'.locked_until # 0
  BY DEF Counts
<1>6. CountIsKept'
  BY <1>4, <1>5, SignInAssumption DEF AttemptsInv, CountIsKept
<1>. QED BY <1>2, <1>3, <1>6 DEF AttemptsInv

(* The row after a write of a method.                                       *)
LEMMA MethodWrites ==
  ASSUME NEW row \in UserRow, NEW keys, NEW secrets \in Nat, AccountTyped,
         MethodAdded(row, keys, secrets) \/ (MethodRemoved(row, keys) /\ UNCHANGED made)
  PROVE  /\ two_step' \in UserRow /\ made' \in [secrets : Nat, sets : Nat]
         /\ Counts(two_step)' = Counts(row)
<1>1. made \in [secrets : Nat, sets : Nat] /\ made.sets \in Nat /\ made.sets + 1 \in Nat
  BY DEF AccountTyped
<1>2. \E g \in BOOLEAN : two_step' = [row EXCEPT !.generated = g]
  <2>1. row.generated \in BOOLEAN
    BY DEF UserRow
  <2>. QED BY <2>1 DEF MethodAdded, MethodRemoved
<1>3. two_step' \in UserRow /\ Counts(two_step)' = Counts(row)
  BY <1>2 DEF UserRow, Counts
<1>4. made' \in [secrets : Nat, sets : Nat]
  BY <1>1 DEF MethodAdded
<1>. QED BY <1>3, <1>4

LEMMA AttemptsStep == AttemptsInv /\ [SignInNext]_signInVars => AttemptsInv'
<1>. SUFFICES ASSUME AttemptsInv, [SignInNext]_signInVars
              PROVE  AttemptsInv'
  OBVIOUS
<1>. USE DEF proofs, rest
<1>0. AccountTyped /\ two_step \in UserRow
  BY DEF AttemptsInv, AccountTyped
<1>1. CASE UNCHANGED <<now, tries, two_step, made, request, holder>>
  BY <1>1 DEF AttemptsInv, AccountTyped, CountIsKept, LockIsHeld
<1>2. CASE \/ SetRequired \/ UNCHANGED signInVars
           \/ \E k \in TicketIds :
                \/ Login(k) \/ PasskeyRegistrationOptions(k) \/ SetupPasskeyOptions(k)
  BY <1>1, <1>2 DEF SetRequired, signInVars, Login, PasskeyRegistrationOptions,
        SetupPasskeyOptions
<1>3. CASE Tick
  <2>1. now' \in Nat /\ UNCHANGED <<tries, two_step, made, request, holder>>
    BY <1>0, <1>3 DEF Tick, AccountTyped
  <2>. QED BY <2>1 DEF AttemptsInv, AccountTyped, CountIsKept, LockIsHeld
<1>4. ASSUME UNCHANGED <<now, request, holder>>, two_step' \in UserRow,
             made' \in [secrets : Nat, sets : Nat],
             \/ Counts(two_step)' = Counts(two_step) /\ UNCHANGED tries
             \/ Counts(two_step)' = <<0, 0>> /\ tries' = 0
      PROVE  AttemptsInv'
  <2>1. AccountTyped'
    BY <1>0, <1>4 DEF AccountTyped
  <2>. QED BY <1>4, <2>1, CountStays
<1>5. CASE ConfirmTotp
  <2>1. PICK s \in Window(now) : MethodAdded(Confirmed(s), sign_counts, made.secrets)
    BY <1>5 DEF ConfirmTotp
  <2>2. /\ Confirmed(s) \in UserRow /\ Counts(Confirmed(s)) = Counts(two_step)
        /\ made.secrets \in Nat
    <3>1. s \in Nat
      BY SignInAssumption DEF Window
    <3>. QED BY <1>0, <3>1 DEF Confirmed, UserRow, Counts, AccountTyped
  <2>. QED BY <1>0, <1>4, <1>5, <2>1, <2>2, MethodWrites DEF ConfirmTotp, Writes
<1>6. CASE AddPasskey
  <2>1. (\E keys : MethodAdded(two_step, keys, made.secrets)) /\ made.secrets \in Nat
    BY <1>0, <1>6 DEF AddPasskey, AccountTyped
  <2>. QED BY <1>0, <1>4, <1>6, <2>1, MethodWrites DEF AddPasskey, Writes
<1>7. CASE BeginTotp
  <2>1. two_step' \in UserRow /\ Counts(two_step)' = Counts(two_step)
        /\ made' \in [secrets : Nat, sets : Nat]
    <3>1. made.secrets + 1 \in Nat
      BY <1>0 DEF AccountTyped
    <3>. QED BY <1>0, <1>7, <3>1 DEF BeginTotp, UserRow, Counts, AccountTyped
  <2>. QED BY <1>4, <1>7, <2>1 DEF BeginTotp, Writes
<1>8. CASE RemoveTotp
  <2>. DEFINE row == [two_step EXCEPT !.secret = 0, !.confirmed = FALSE,
                                      !.last_step = 0, !.spent = FALSE]
  <2>1. row \in UserRow /\ Counts(row) = Counts(two_step) /\ made.secrets \in Nat
    BY <1>0 DEF UserRow, Counts, AccountTyped
  <2>2. MethodRemoved(row, sign_counts) /\ UNCHANGED <<made, now, request, holder, tries>>
    BY <1>8 DEF RemoveTotp, Writes
  <2>. HIDE DEF row
  <2>. QED BY <1>0, <1>4, <2>1, <2>2, MethodWrites DEF AccountTyped
<1>9. CASE RemovePasskey
  <2>1. (\E keys : MethodRemoved(two_step, keys))
        /\ UNCHANGED <<made, now, request, holder, tries>>
    BY <1>9 DEF RemovePasskey, Writes
  <2>. QED BY <1>0, <1>4, <2>1, MethodWrites
<1>10. CASE RegenerateCodes
  <2>1. two_step' \in UserRow /\ Counts(two_step)' = Counts(two_step)
        /\ made' \in [secrets : Nat, sets : Nat]
    <3>1. made.sets + 1 \in Nat
      BY <1>0 DEF AccountTyped
    <3>. QED BY <1>0, <1>10, <3>1 DEF RegenerateCodes, UserRow, Counts, AccountTyped
  <2>. QED BY <1>4, <1>10, <2>1 DEF RegenerateCodes, Writes
<1>11. CASE Reset
  <2>1. two_step' \in UserRow /\ Counts(two_step)' = <<0, 0>> /\ tries' = 0
        /\ UNCHANGED <<made, now, request, holder>>
    BY <1>11 DEF Reset, Writes, NoRow, UserRow, Counts
  <2>. QED BY <1>0, <1>4, <2>1 DEF AccountTyped
<1>12. ASSUME NEW k \in TicketIds, PasskeyOptions(k)
       PROVE  AttemptsInv'
  <2>1. /\ two_step' \in UserRow
        /\ \/ Counts(two_step)' = Counts(two_step) /\ UNCHANGED tries
           \/ Counts(two_step)' = <<0, 0>> /\ tries' = 0
    BY <1>0, <1>12 DEF PasskeyOptions, UserRow, Counts
  <2>. QED BY <1>0, <1>4, <1>12, <2>1 DEF PasskeyOptions, AccountTyped
<1>13. ASSUME NEW b \in Browsers, NEW k \in TicketIds, Verify(b, k) \/ FinishSetup(b, k)
       PROVE  AttemptsInv'
  <2>1. /\ UNCHANGED <<now, tries, two_step, made, holder>>
        /\ \E r \in TriesAsked \cup Finishing :
             r.at # "guarded" /\ request' = [request EXCEPT ![b] = r]
    <3>1. CASE Verify(b, k)
      <4>1. PICK a \in Answerable \cup Signature :
              request' = [request EXCEPT ![b] =
                [at |-> "found", ticket |-> k, answer |-> a, now |-> now]]
        BY <3>1 DEF Verify, Ask
      <4>2. a \in TryAnswers /\ now \in Nat
        BY <1>0 DEF Answerable, TryAnswers, AccountTyped
      <4>. QED BY <1>13, <3>1, <4>1, <4>2 DEF Verify, TriesAsked
    <3>2. CASE FinishSetup(b, k)
      BY <1>13, <3>2 DEF FinishSetup, Ask, Finishing
    <3>. QED BY <1>13, <3>1, <3>2
  <2>2. AccountTyped' /\ \A c \in Browsers : request'[c].at = "guarded" => request[c].at = "guarded"
    BY <1>0, <2>1 DEF AccountTyped
  <2>. QED BY <2>1, <2>2, CountStays
<1>14. ASSUME NEW b \in Browsers, Guard(b)
       PROVE  AttemptsInv'
  <2>1. CASE two_step.locked_until > request[b].now
    <3>1. UNCHANGED <<now, tries, two_step, made, holder>>
          /\ request' = [request EXCEPT ![b] = AtRest]
      BY <1>14, <2>1 DEF Guard, EnterWith, Ask
    <3>2. AccountTyped' /\ \A c \in Browsers :
            request'[c].at = "guarded" => request[c].at = "guarded"
      BY <1>0, <3>1 DEF AccountTyped, AtRest
    <3>. QED BY <3>1, <3>2, CountStays
  <2>2. CASE ~(two_step.locked_until > request[b].now)
    <3>1. /\ holder = Nobody /\ holder' = b /\ UNCHANGED <<now, made>>
          /\ request[b].at = "found"
          /\ request' = [request EXCEPT ![b] = [request[b] EXCEPT !.at = "guarded"]]
          /\ two_step' = Guarded(b)
          /\ tries' = IF two_step.locked_until # 0 THEN 0 ELSE tries
      BY <1>14, <2>2 DEF Guard, EnterWith, Ask
    <3>2. request[b] \in TriesAsked
      BY <1>0, <3>1 DEF AccountTyped, AtRest, Finishing
    <3>3. /\ [request[b] EXCEPT !.at = "guarded"] \in TriesAsked
          /\ two_step' \in UserRow /\ two_step'.locked_until = 0
          /\ two_step'.failed = IF two_step.locked_until # 0 THEN 0 ELSE two_step.failed
      BY <1>0, <3>1, <3>2 DEF TriesAsked, Guarded, UserRow
    <3>4. AccountTyped'
      BY <1>0, <3>1, <3>3 DEF AccountTyped
    <3>5. CountIsKept' /\ two_step'.failed < MaxFailures
      BY <1>0, <3>1, <3>3, SignInAssumption DEF AttemptsInv, CountIsKept, AccountTyped, UserRow
    <3>6. LockIsHeld'
      BY <1>0, <3>1, <3>3, <3>5, SignInAssumption DEF AttemptsInv, LockIsHeld, AccountTyped
    <3>. QED BY <3>4, <3>5, <3>6 DEF AttemptsInv
  <2>. QED BY <2>1, <2>2
<1>15. ASSUME NEW b \in Browsers, Refuse(b)
       PROVE  AttemptsInv'
  BY <1>0, <1>15, LockFreed DEF Refuse, AccountTyped
<1>16. ASSUME NEW b \in Browsers, Accept(b)
       PROVE  AttemptsInv'
  <2>1. request[b].at = "guarded" /\ Release(b) /\ UNCHANGED <<now, made>>
    BY <1>16 DEF Accept
  <2>2. CASE Issued(request[b].ticket)
    <3>1. Spend(b) /\ tries' = 0
      BY <1>16, <2>2 DEF Accept
    <3>2. request[b].answer \in TryAnswers
      BY <1>0, <2>1 DEF AccountTyped, AtRest, Finishing, TriesAsked
    <3>3. request[b].answer.kind = "totp" => request[b].answer.step \in Nat
      BY <3>2 DEF TryAnswers, Totp, Code, Signature, Wrong
    <3>4. two_step' \in UserRow /\ Counts(two_step)' = <<0, 0>>
      BY <1>0, <3>1, <3>3 DEF Spend, UserRow, Counts
    <3>. QED BY <2>1, <3>1, <3>4, LockFreed
  <2>3. CASE ~Issued(request[b].ticket)
    BY <1>0, <1>16, <2>1, <2>3, LockFreed DEF Accept, AccountTyped
  <2>. QED BY <2>2, <2>3
<1>17. ASSUME NEW b \in Browsers, Reject(b)
       PROVE  AttemptsInv'
  <2>1. /\ request[b].at = "guarded" /\ Release(b) /\ UNCHANGED <<now, made>>
        /\ tries' = tries + 1
        /\ two_step' = [two_step EXCEPT
             !.failed = @ + 1,
             !.locked_until = IF two_step.failed + 1 >= MaxFailures
                              THEN request[b].now + Pause ELSE @]
    BY <1>17 DEF Reject
  <2>2. request[b] \in TriesAsked
    BY <1>0, <2>1 DEF AccountTyped, AtRest, Finishing
  <2>3. request[b].now \in Nat
    BY <2>2 DEF TriesAsked
  <2>4. /\ request[b].now + Pause \in Nat /\ request[b].now + Pause # 0
        /\ two_step.failed + 1 \in Nat /\ two_step.locked_until \in Nat
        /\ tries + 1 \in Nat
    BY <1>0, <2>3, SignInAssumption DEF AccountTyped, UserRow
  <2>5. /\ two_step' \in UserRow /\ two_step'.failed = two_step.failed + 1
        /\ two_step.failed + 1 >= MaxFailures => two_step'.locked_until # 0
    BY <1>0, <2>1, <2>4 DEF UserRow
  <2>. QED BY <2>1, <2>4, <2>5, LockFreed
<1>18. ASSUME NEW b \in Browsers, ConsumeSetup(b)
       PROVE  AttemptsInv'
  <2>1. /\ two_step' \in UserRow /\ UNCHANGED <<now, made, holder>>
        /\ request' = [request EXCEPT ![b] = AtRest]
        /\ \/ Counts(two_step)' = Counts(two_step) /\ UNCHANGED tries
           \/ Counts(two_step)' = <<0, 0>> /\ tries' = 0
    <3>1. CASE Issued(request[b].ticket)
      <4>1. /\ two_step' = [two_step EXCEPT !.failed = 0, !.locked_until = 0]
            /\ tries' = 0
        BY <1>18, <3>1 DEF ConsumeSetup
      <4>2. two_step' \in UserRow /\ Counts(two_step)' = <<0, 0>>
        BY <1>0, <4>1 DEF UserRow, Counts
      <4>. QED BY <1>18, <4>1, <4>2 DEF ConsumeSetup, Ask
    <3>2. CASE ~Issued(request[b].ticket)
      BY <1>0, <1>18, <3>2 DEF ConsumeSetup, Ask, Counts
    <3>. QED BY <3>1, <3>2
  <2>2. AccountTyped' /\ \A c \in Browsers :
          request'[c].at = "guarded" => request[c].at = "guarded"
    BY <1>0, <2>1 DEF AccountTyped, AtRest
  <2>. QED BY <2>1, <2>2, CountStays
<1>. QED
  BY <1>2, <1>3, <1>5, <1>6, <1>7, <1>8, <1>9, <1>10, <1>11, <1>12, <1>13, <1>14,
     <1>15, <1>16, <1>17, <1>18
     DEF SignInNext, SettingsTotp, SetupTotp, SettingsPasskey, SetupPasskey

LEMMA AttemptsInvariant == SignInSpec => []AttemptsInv
<1>1. SignInInit => AttemptsInv
  BY SignInAssumption DEF SignInInit, AttemptsInv, AccountTyped, CountIsKept,
     LockIsHeld, NoRow, UserRow, AtRest
<1>. QED BY <1>1, AttemptsStep, PTL DEF SignInSpec

(* Not more than MaxFailures wrong answers are checked before a pause, also *)
(* when they are given at once.                                             *)
THEOREM TriesAlwaysBounded == SignInSpec => []TriesAreBounded
<1>1. AttemptsInv => TriesAreBounded
  BY SignInAssumption DEF AttemptsInv, AccountTyped, CountIsKept, TriesAreBounded, UserRow
<1>. QED BY <1>1, AttemptsInvariant, PTL

-----------------------------------------------------------------------------
(* The codes that were accepted: those of the authenticator are of a step   *)
(* that is over for their secret, those of the list are not on it.          *)
UsedTotp == [kind : {"totp"}, secret : Nat \ {0}, step : Nat]
UsedCode == [kind : {"code"}, set : Nat, number : Nat]

AcceptedOnce ==
  accepted \in [DOMAIN accepted -> {1}] /\ DOMAIN accepted \subseteq UsedTotp \cup UsedCode
ListIsMade == codes \subseteq UsedCode /\ \A c \in codes : c.set <= made.sets
CodesAreUsed == \A a \in DOMAIN accepted : a \in UsedCode => a \notin codes /\ a.set <= made.sets
Over(a) == two_step.confirmed /\ two_step.spent /\ a.step <= two_step.last_step
StepsAreUsed ==
  /\ two_step.secret <= made.secrets
  /\ \A a \in DOMAIN accepted : a \in UsedTotp =>
       a.secret <= made.secrets /\ (a.secret = two_step.secret => Over(a))

CodesInv == AcceptedOnce /\ ListIsMade /\ CodesAreUsed /\ StepsAreUsed

(* The authenticator and the list are as they were, or fewer; or new.       *)
TotpFields(row) == <<row.secret, row.confirmed, row.spent, row.last_step>>
TotpStays == TotpFields(two_step)' = TotpFields(two_step)
ListShrinksOrNew ==
  codes' \subseteq codes \/ (codes' = NewCodes /\ made'.sets = made.sets + 1)

LEMMA UsedStay ==
  ASSUME AccountTyped, AccountTyped', CodesInv, UNCHANGED accepted,
         made'.secrets >= made.secrets, made'.sets >= made.sets, ListShrinksOrNew,
         \/ TotpStays \/ two_step'.secret = 0
         \/ two_step'.secret = made.secrets + 1 /\ made'.secrets = made.secrets + 1
  PROVE  CodesInv'
<1>1. /\ made.secrets \in Nat /\ made.sets \in Nat /\ made'.secrets \in Nat
      /\ made'.sets \in Nat /\ two_step.secret \in Nat
  BY DEF AccountTyped, UserRow
<1>2. AcceptedOnce'
  BY DEF CodesInv, AcceptedOnce
<1>3. \A c \in NewCodes : c \in UsedCode /\ c.set = made.sets + 1
  BY SignInAssumption DEF NewCodes, Code, UsedCode
<1>4. ListIsMade'
  <2>. SUFFICES ASSUME NEW c \in codes'
                PROVE  c \in UsedCode /\ c.set <= made'.sets
    BY DEF ListIsMade
  <2>1. c \in UsedCode /\ c.set \in Nat
    BY <1>3 DEF ListShrinksOrNew, CodesInv, ListIsMade, UsedCode
  <2>. QED BY <1>1, <1>3, <2>1 DEF ListShrinksOrNew, CodesInv, ListIsMade
<1>5. CodesAreUsed'
  <2>. SUFFICES ASSUME NEW a \in DOMAIN accepted, a \in UsedCode
                PROVE  a \notin codes' /\ a.set <= made'.sets
    BY DEF CodesAreUsed
  <2>1. a \notin codes /\ a.set <= made.sets /\ a.set \in Nat
    BY DEF CodesInv, CodesAreUsed, UsedCode
  <2>. QED BY <1>1, <1>3, <2>1 DEF ListShrinksOrNew
<1>6. StepsAreUsed'
  <2>1. two_step'.secret <= made'.secrets
    BY <1>1 DEF TotpStays, TotpFields, CodesInv, StepsAreUsed
  <2>. SUFFICES ASSUME NEW a \in DOMAIN accepted, a \in UsedTotp
                PROVE  a.secret <= made'.secrets /\ (a.secret = two_step'.secret => Over(a)')
    BY <2>1 DEF StepsAreUsed
  <2>2. a.secret <= made.secrets /\ a.secret \in Nat \ {0}
    BY DEF CodesInv, StepsAreUsed, UsedTotp
  <2>3. CASE TotpStays
    BY <1>1, <2>2, <2>3 DEF TotpStays, TotpFields, CodesInv, StepsAreUsed, Over
  <2>4. CASE \/ two_step'.secret = 0
             \/ two_step'.secret = made.secrets + 1 /\ made'.secrets = made.secrets + 1
    BY <1>1, <2>2, <2>4
  <2>. QED BY <2>3, <2>4
<1>. QED BY <1>2, <1>4, <1>5, <1>6 DEF CodesInv

(* An answer that was not accepted before is accepted once.                 *)
LEMMA CountOnce ==
  ASSUME AcceptedOnce, NEW a \in UsedTotp \cup UsedCode, a \notin DOMAIN accepted,
         accepted' = Count(accepted, a)
  PROVE  AcceptedOnce' /\ DOMAIN accepted' = DOMAIN accepted \cup {a}
<1>1. DOMAIN accepted' = DOMAIN accepted \cup {a}
  BY DEF Count
<1>2. \A x \in DOMAIN accepted' : accepted'[x] = 1
  BY DEF Count, AcceptedOnce
<1>3. accepted' = [x \in DOMAIN accepted' |-> accepted'[x]]
  BY DEF Count
<1>. QED BY <1>1, <1>2, <1>3 DEF AcceptedOnce

(* A right code of the authenticator was not accepted before.               *)
LEMMA TotpIsNew ==
  ASSUME AccountTyped, CodesInv, NEW a \in UsedTotp, a.secret = two_step.secret,
         two_step.confirmed /\ two_step.spent => a.step > two_step.last_step
  PROVE  a \notin DOMAIN accepted
<1>1. a.step \in Nat /\ two_step.last_step \in Nat
  BY DEF AccountTyped, UserRow, UsedTotp
<1>. QED BY <1>1 DEF CodesInv, StepsAreUsed, Over

(* Accepting it makes its step the last one.                                *)
LEMMA TotpAccepted ==
  ASSUME AccountTyped, AccountTyped', CodesInv, NEW a \in UsedTotp,
         a.secret = two_step.secret,
         two_step.confirmed /\ two_step.spent => a.step > two_step.last_step,
         accepted' = Count(accepted, a),
         TotpFields(two_step)' = <<two_step.secret, TRUE, TRUE, a.step>>,
         made'.secrets = made.secrets, made'.sets >= made.sets, ListShrinksOrNew
  PROVE  CodesInv'
<1>1. /\ made.secrets \in Nat /\ made.sets \in Nat /\ made'.sets \in Nat
      /\ two_step.secret \in Nat /\ two_step.last_step \in Nat
      /\ a.step \in Nat
  BY DEF AccountTyped, UserRow, UsedTotp
<1>2. a \notin DOMAIN accepted /\ a \notin UsedCode
  BY TotpIsNew DEF UsedTotp, UsedCode
<1>3. AcceptedOnce' /\ DOMAIN accepted' = DOMAIN accepted \cup {a}
  BY <1>2, CountOnce DEF CodesInv
<1>4. \A c \in NewCodes : c \in UsedCode /\ c.set = made.sets + 1
  BY SignInAssumption DEF NewCodes, Code, UsedCode
<1>5. ListIsMade'
  <2>. SUFFICES ASSUME NEW c \in codes'
                PROVE  c \in UsedCode /\ c.set <= made'.sets
    BY DEF ListIsMade
  <2>1. c \in UsedCode /\ c.set \in Nat
    BY <1>4 DEF ListShrinksOrNew, CodesInv, ListIsMade, UsedCode
  <2>. QED BY <1>1, <1>4, <2>1 DEF ListShrinksOrNew, CodesInv, ListIsMade
<1>6. CodesAreUsed'
  <2>. SUFFICES ASSUME NEW x \in DOMAIN accepted, x \in UsedCode
                PROVE  x \notin codes' /\ x.set <= made'.sets
    BY <1>2, <1>3 DEF CodesAreUsed
  <2>1. x \notin codes /\ x.set <= made.sets /\ x.set \in Nat
    BY DEF CodesInv, CodesAreUsed, UsedCode
  <2>. QED BY <1>1, <1>4, <2>1 DEF ListShrinksOrNew
<1>7. StepsAreUsed'
  <2>1. /\ two_step'.secret = two_step.secret /\ two_step'.confirmed /\ two_step'.spent
        /\ two_step'.last_step = a.step /\ two_step.secret <= made.secrets
    BY DEF TotpFields, CodesInv, StepsAreUsed
  <2>. SUFFICES ASSUME NEW x \in DOMAIN accepted', x \in UsedTotp
                PROVE  x.secret <= made'.secrets /\ (x.secret = two_step'.secret => Over(x)')
    BY <1>1, <2>1 DEF StepsAreUsed
  <2>2. CASE x = a
    BY <1>1, <2>1, <2>2 DEF Over
  <2>3. CASE x \in DOMAIN accepted
    <3>1. x.step \in Nat
      BY DEF UsedTotp
    <3>2. /\ x.secret <= made.secrets
          /\ x.secret = two_step.secret =>
               two_step.confirmed /\ two_step.spent /\ x.step <= two_step.last_step
      BY <2>3 DEF CodesInv, StepsAreUsed, Over
    <3>. QED BY <1>1, <2>1, <3>1, <3>2 DEF Over
  <2>. QED BY <1>3, <2>2, <2>3
<1>. QED BY <1>3, <1>5, <1>6, <1>7 DEF CodesInv

(* A code of the list is taken off it.                                      *)
LEMMA CodeAccepted ==
  ASSUME AccountTyped, CodesInv, NEW a \in codes, accepted' = Count(accepted, a),
         TotpStays, UNCHANGED made, codes' = codes \ {a}
  PROVE  CodesInv'
<1>1. /\ a \in UsedCode /\ a.set <= made.sets /\ a \notin DOMAIN accepted /\ a \notin UsedTotp
  BY DEF CodesInv, ListIsMade, CodesAreUsed, UsedTotp, UsedCode
<1>2. AcceptedOnce' /\ DOMAIN accepted' = DOMAIN accepted \cup {a}
  BY <1>1, CountOnce DEF CodesInv
<1>3. ListIsMade' /\ CodesAreUsed'
  BY <1>1, <1>2 DEF CodesInv, ListIsMade, CodesAreUsed
<1>4. StepsAreUsed'
  BY <1>1, <1>2 DEF CodesInv, StepsAreUsed, TotpStays, TotpFields, Over
<1>. QED BY <1>2, <1>3, <1>4 DEF CodesInv

(* What a method added or removed does to the list and the authenticator.   *)
LEMMA MethodCodes ==
  ASSUME AccountTyped, NEW row, NEW keys, row \in UserRow,
         MethodAdded(row, keys, made.secrets) \/ (MethodRemoved(row, keys) /\ UNCHANGED made)
  PROVE  /\ TotpFields(two_step)' = TotpFields(row)
         /\ made'.secrets = made.secrets /\ made'.sets >= made.sets /\ ListShrinksOrNew
<1>1. made.sets \in Nat
  BY DEF AccountTyped
<1>2. \E g \in BOOLEAN : two_step' = [row EXCEPT !.generated = g]
  <2>1. row.generated \in BOOLEAN
    BY DEF UserRow
  <2>. QED BY <2>1 DEF MethodAdded, MethodRemoved
<1>3. TotpFields(two_step)' = TotpFields(row)
  BY <1>2 DEF UserRow, TotpFields
<1>4. made'.secrets = made.secrets /\ made'.sets >= made.sets
  BY <1>1 DEF MethodAdded
<1>5. ListShrinksOrNew
  BY <1>1 DEF MethodAdded, MethodRemoved, ListShrinksOrNew
<1>. QED BY <1>3, <1>4, <1>5

LEMMA CodesStep ==
  CodesInv /\ AccountTyped /\ AccountTyped' /\ [SignInNext]_signInVars => CodesInv'
<1>. SUFFICES ASSUME CodesInv, AccountTyped, AccountTyped', [SignInNext]_signInVars
              PROVE  CodesInv'
  OBVIOUS
<1>. USE DEF proofs, rest
<1>0. two_step \in UserRow /\ made.secrets \in Nat /\ made.sets \in Nat
  BY DEF AccountTyped
<1>1. ASSUME UNCHANGED <<accepted, made, codes>>, TotpStays
      PROVE  CodesInv'
  BY <1>0, <1>1, UsedStay DEF ListShrinksOrNew
<1>2. CASE \/ SetRequired \/ Tick \/ UNCHANGED signInVars
           \/ \E k \in TicketIds :
                \/ Login(k) \/ PasskeyRegistrationOptions(k) \/ SetupPasskeyOptions(k)
                \/ \E b \in Browsers : Verify(b, k) \/ FinishSetup(b, k)
           \/ \E b \in Browsers : Refuse(b)
  BY <1>1, <1>2 DEF SetRequired, Tick, signInVars, Login, PasskeyRegistrationOptions,
        SetupPasskeyOptions, Verify, FinishSetup, Refuse, TotpStays
<1>3. ASSUME NEW f, NEW l, two_step' = [two_step EXCEPT !.failed = f, !.locked_until = l]
      PROVE  TotpStays
  BY <1>0, <1>3 DEF TotpStays, TotpFields, UserRow
<1>4. ASSUME NEW k \in TicketIds, PasskeyOptions(k)
      PROVE  CodesInv'
  <2>1. TotpStays
    BY <1>0, <1>4 DEF PasskeyOptions, TotpStays, TotpFields, UserRow
  <2>. QED BY <1>1, <1>4, <2>1 DEF PasskeyOptions
<1>5. ASSUME NEW b \in Browsers, Guard(b) \/ Reject(b) \/ ConsumeSetup(b)
      PROVE  CodesInv'
  <2>1. TotpStays
    <3>1. CASE UNCHANGED two_step
      BY <3>1 DEF TotpStays
    <3>2. CASE \E f, l : two_step' = [two_step EXCEPT !.failed = f, !.locked_until = l]
      BY <1>3, <3>2
    <3>3. CASE two_step' = Guarded(b)
      BY <1>0, <3>3 DEF Guarded, TotpStays, TotpFields, UserRow
    <3>. QED BY <1>5, <3>1, <3>2, <3>3 DEF Guard, EnterWith, Reject, ConsumeSetup
  <2>. QED BY <1>1, <1>5, <2>1 DEF Guard, EnterWith, Reject, ConsumeSetup
<1>6. ASSUME NEW b \in Browsers, Accept(b)
      PROVE  CodesInv'
  <2>. DEFINE a == request[b].answer
  <2>1. request[b] \in TriesAsked
    <3>1. request[b].at = "guarded"
      BY <1>6 DEF Accept
    <3>. QED BY <3>1 DEF AccountTyped, AtRest, Finishing
  <2>2. a \in TryAnswers /\ request[b].now \in Nat
    BY <2>1 DEF TriesAsked
  <2>3. CASE ~Issued(request[b].ticket)
    BY <1>1, <1>6, <2>3 DEF Accept, TotpStays
  <2>4. CASE Issued(request[b].ticket) /\ a.kind = "totp"
    <3>1. /\ TotpRight(a, request[b].now) /\ Spend(b) /\ accepted' = Count(accepted, a)
          /\ UNCHANGED made
      BY <1>6, <2>4 DEF Accept, Right
    <3>2. a \in UsedTotp
      BY <2>2, <2>4, SignInAssumption DEF TryAnswers, Totp, Code, Signature, Wrong, UsedTotp
    <3>3. /\ a.secret = two_step.secret /\ two_step.confirmed
          /\ two_step.spent => a.step > two_step.last_step
      BY <3>1 DEF TotpRight, HasTotp
    <3>4. TotpFields(two_step)' = <<two_step.secret, TRUE, TRUE, a.step>>
      BY <1>0, <2>4, <3>1, <3>3 DEF Spend, TotpFields, UserRow
    <3>5. ListShrinksOrNew
      BY <3>1 DEF Spend, ListShrinksOrNew
    <3>. QED BY <1>0, <3>1, <3>2, <3>3, <3>4, <3>5, TotpAccepted
  <2>5. CASE Issued(request[b].ticket) /\ a.kind = "code"
    <3>1. a \in codes /\ Spend(b) /\ accepted' = Count(accepted, a) /\ UNCHANGED made
      BY <1>6, <2>5 DEF Accept, Right
    <3>2. TotpStays /\ codes' = codes \ {a}
      BY <1>0, <2>5, <3>1 DEF Spend, TotpStays, TotpFields, UserRow
    <3>. QED BY <3>1, <3>2, CodeAccepted
  <2>6. CASE Issued(request[b].ticket) /\ a.kind = "passkey"
    <3>1. Spend(b) /\ UNCHANGED <<accepted, made>>
      BY <1>6, <2>6 DEF Accept
    <3>2. TotpStays /\ ListShrinksOrNew
      BY <1>0, <2>6, <3>1 DEF Spend, TotpStays, TotpFields, UserRow, ListShrinksOrNew
    <3>. QED BY <1>0, <3>1, <3>2, UsedStay
  <2>7. a.kind \in {"totp", "code", "passkey"}
    BY <1>6, <2>2 DEF Accept, Right, TryAnswers, Totp, Code, Signature, Wrong
  <2>. QED BY <2>3, <2>4, <2>5, <2>6, <2>7
<1>7. CASE ConfirmTotp
  <2>1. PICK s \in Window(now) :
          /\ MethodAdded(Confirmed(s), sign_counts, made.secrets)
          /\ accepted' = Count(accepted, [kind |-> "totp", secret |-> two_step.secret,
                                          step |-> s])
    BY <1>7 DEF ConfirmTotp
  <2>. DEFINE a == [kind |-> "totp", secret |-> two_step.secret, step |-> s]
  <2>2. two_step.secret # 0 /\ ~two_step.confirmed /\ s \in Nat
    BY <1>7, SignInAssumption DEF ConfirmTotp, HasTotp, Window
  <2>3. /\ a \in UsedTotp /\ a.secret = two_step.secret /\ a.step = s
        /\ Confirmed(s) \in UserRow
        /\ TotpFields(Confirmed(s)) = <<two_step.secret, TRUE, TRUE, s>>
    BY <1>0, <2>2 DEF UsedTotp, UserRow, Confirmed, TotpFields
  <2>4. /\ TotpFields(two_step)' = TotpFields(Confirmed(s))
        /\ made'.secrets = made.secrets /\ made'.sets >= made.sets /\ ListShrinksOrNew
    BY <2>1, <2>3, MethodCodes
  <2>. HIDE DEF a
  <2>5. accepted' = Count(accepted, a)
    BY <2>1 DEF a
  <2>. QED BY <2>2, <2>3, <2>4, <2>5, TotpAccepted
<1>8. CASE AddPasskey
  <2>1. (\E keys : MethodAdded(two_step, keys, made.secrets)) /\ UNCHANGED accepted
    BY <1>8 DEF AddPasskey
  <2>2. /\ TotpStays /\ made'.secrets = made.secrets /\ made'.sets >= made.sets
        /\ ListShrinksOrNew
    BY <1>0, <2>1, MethodCodes DEF TotpStays
  <2>. QED BY <1>0, <2>1, <2>2, UsedStay
<1>9. CASE RemovePasskey
  <2>1. (\E keys : MethodRemoved(two_step, keys)) /\ UNCHANGED <<made, accepted>>
    BY <1>9 DEF RemovePasskey
  <2>2. TotpStays /\ ListShrinksOrNew
    BY <1>0, <2>1, MethodCodes DEF TotpStays
  <2>. QED BY <1>0, <2>1, <2>2, UsedStay
<1>10. CASE RemoveTotp
  <2>. DEFINE row == [two_step EXCEPT !.secret = 0, !.confirmed = FALSE,
                                      !.last_step = 0, !.spent = FALSE]
  <2>1. row \in UserRow /\ TotpFields(row) = <<0, FALSE, FALSE, 0>>
    BY <1>0 DEF UserRow, TotpFields
  <2>2. MethodRemoved(row, sign_counts) /\ UNCHANGED <<made, accepted>>
    BY <1>10 DEF RemoveTotp
  <2>. HIDE DEF row
  <2>3. TotpFields(two_step)' = <<0, FALSE, FALSE, 0>> /\ ListShrinksOrNew
    BY <2>1, <2>2, MethodCodes
  <2>4. two_step'.secret = 0
    BY <2>3 DEF TotpFields
  <2>. QED BY <1>0, <2>2, <2>3, <2>4, UsedStay
<1>11. CASE BeginTotp
  <2>1. /\ two_step'.secret = made.secrets + 1 /\ made'.secrets = made.secrets + 1
        /\ made'.sets = made.sets /\ UNCHANGED <<codes, accepted>>
    BY <1>0, <1>11 DEF BeginTotp, UserRow, AccountTyped
  <2>. QED BY <1>0, <2>1, UsedStay DEF ListShrinksOrNew
<1>12. CASE RegenerateCodes
  <2>1. /\ codes' = NewCodes /\ made'.sets = made.sets + 1 /\ made'.secrets = made.secrets
        /\ UNCHANGED accepted
    BY <1>0, <1>12 DEF RegenerateCodes, AccountTyped
  <2>2. TotpStays
    BY <1>0, <1>12 DEF RegenerateCodes, TotpStays, TotpFields, UserRow
  <2>. QED BY <1>0, <2>1, <2>2, UsedStay DEF ListShrinksOrNew
<1>13. CASE Reset
  <2>1. two_step'.secret = 0 /\ codes' = {} /\ UNCHANGED <<made, accepted>>
    BY <1>13 DEF Reset, NoRow
  <2>. QED BY <1>0, <2>1, UsedStay DEF ListShrinksOrNew
<1>. QED
  BY <1>2, <1>4, <1>5, <1>6, <1>7, <1>8, <1>9, <1>10, <1>11, <1>12, <1>13
     DEF SignInNext, SettingsTotp, SetupTotp, SettingsPasskey, SetupPasskey

(* A code works once, also the one that confirmed the authenticator, and    *)
(* also after methods were removed, replaced or reset.                      *)
THEOREM CodeAlwaysOnce == SignInSpec => []CodeWorksOnce
<1>1. SignInInit => CodesInv
  BY DEF SignInInit, CodesInv, AcceptedOnce, ListIsMade, CodesAreUsed, StepsAreUsed, NoRow
<1>2. CodesInv => CodeWorksOnce
  BY DEF CodesInv, AcceptedOnce, CodeWorksOnce
<1>3. AttemptsInv => AccountTyped
  BY DEF AttemptsInv
<1>. QED BY <1>1, <1>2, <1>3, CodesStep, AttemptsInvariant, PTL DEF SignInSpec

-----------------------------------------------------------------------------
(* Accounts *)

Columns == {"is_admin", "admin_rows", "is_active", "roles"}
BothOrNone(row) ==
  /\ row = [c \in Columns |-> row[c]]
  /\ row.is_admin \in BOOLEAN /\ (row.is_admin <=> row.admin_rows # {})

(* While nobody else is at an account, it is as the request read it.        *)
Read(u, p) ==
  /\ p.seen.is_admin = users[u].is_admin /\ p.seen.admin_rows = users[u].admin_rows
  /\ p.admin \in BOOLEAN

AccountsInv ==
  /\ users = [u \in Users |-> users[u]]
  /\ requesting = [a \in Users |-> requesting[a]]
  /\ \A u \in Users : Exists(u) => users[u] = [c \in Columns |-> users[u][c]]
  /\ \A u \in Users : Exists(u) /\ u \notin overlapped => BothOrNone(users[u])
  /\ \A a, b \in Pending : Target(a) = Target(b) /\ Target(a) \notin overlapped => a = b
  /\ \A a \in Pending : Target(a) \in Users
  /\ \A a \in Pending : requesting[a].kind = "update" /\ Target(a) \notin overlapped
                          => Read(Target(a), requesting[a])

(* A request begins: on an account another one is at, both overlap.         *)
LEMMA BeginSound ==
  ASSUME AccountsInv, NEW a \in Users, NEW p, Begin(a, p), p # NoRequest, p.target \in Users,
         p.kind = "update" => Read(p.target, p)
  PROVE  AccountsInv'
<1>. USE DEF Begin
<1>1. requesting' = [b \in Users |-> requesting'[b]] /\ requesting'[a] = p
      /\ \A b \in Users \ {a} : requesting'[b] = requesting[b]
  BY DEF AccountsInv
<1>2. overlapped \subseteq overlapped' /\ users' = users
  OBVIOUS
<1>3. Pending' = Pending \cup {a} /\ a \notin Pending
  BY <1>1 DEF Pending
<1>4. Target(a)' = p.target /\ \A b \in Pending : Target(b)' = Target(b)
  BY <1>1, <1>3 DEF Target, Pending
<1>5. ASSUME NEW b \in Pending', NEW c \in Pending', Target(b)' = Target(c)',
             Target(b)' \notin overlapped'
      PROVE  b = c
  <2>1. CASE b = a \/ c = a
    BY <1>3, <1>4, <1>5, <2>1
  <2>2. CASE b # a /\ c # a
    BY <1>2, <1>3, <1>4, <1>5, <2>2 DEF AccountsInv
  <2>. QED BY <2>1, <2>2
<1>6. \A b \in Pending' : Target(b)' \in Users
  BY <1>3, <1>4 DEF AccountsInv
<1>7. ASSUME NEW b \in Pending', requesting'[b].kind = "update", Target(b)' \notin overlapped'
      PROVE  Read(Target(b), requesting[b])'
  <2>1. CASE b = a
    BY <1>1, <1>2, <1>4, <1>7, <2>1 DEF Read
  <2>2. CASE b # a
    BY <1>1, <1>2, <1>3, <1>4, <1>7, <2>2 DEF AccountsInv, Read, Pending
  <2>. QED BY <2>1, <2>2
<1>8. \A u \in Users : Exists(u)' <=> Exists(u)
  BY <1>2 DEF Exists
<1>. QED BY <1>1, <1>2, <1>5, <1>6, <1>7, <1>8 DEF AccountsInv

(* A request ends, having changed no account but the one it is at.          *)
LEMMA CommitSound ==
  ASSUME AccountsInv, NEW a \in Users, NEW kind, kind # "none", Commits(a, kind),
         users' = [u \in Users |-> users'[u]],
         \A u \in Users : u # Target(a) => users'[u] = users[u],
         \A u \in Users : u = Target(a) /\ Exists(u)' =>
           /\ users'[u] = [c \in Columns |-> users'[u][c]]
           /\ u \notin overlapped => BothOrNone(users'[u])
  PROVE  AccountsInv'
<1>. USE DEF Commits
<1>1. requesting' = [b \in Users |-> requesting'[b]] /\ requesting'[a] = NoRequest
      /\ \A b \in Users \ {a} : requesting'[b] = requesting[b]
  BY DEF AccountsInv
<1>2. a \in Pending /\ Pending' = Pending \ {a}
  BY <1>1 DEF Pending, NoRequest
<1>3. \A b \in Pending' : Target(b)' = Target(b) /\ requesting'[b] = requesting[b]
  BY <1>1, <1>2 DEF Target, Pending
<1>4. ASSUME NEW u \in Users, Exists(u)'
      PROVE  /\ users'[u] = [c \in Columns |-> users'[u][c]]
             /\ u \notin overlapped' => BothOrNone(users'[u])
  <2>1. CASE u = Target(a)
    BY <1>4, <2>1
  <2>2. CASE u # Target(a)
    BY <1>4, <2>2 DEF AccountsInv, Exists
  <2>. QED BY <2>1, <2>2
<1>5. ASSUME NEW b \in Pending', NEW c \in Pending', Target(b)' = Target(c)',
             Target(b)' \notin overlapped'
      PROVE  b = c
  <2>1. b \in Pending /\ c \in Pending /\ Target(b) = Target(c) /\ Target(b) \notin overlapped
    BY <1>2, <1>3, <1>5
  <2>. QED BY <2>1 DEF AccountsInv
<1>6. ASSUME NEW b \in Pending'
      PROVE  Target(b)' \in Users
  <2>1. b \in Pending /\ Target(b)' = Target(b)
    BY <1>2, <1>3, <1>6
  <2>. QED BY <2>1 DEF AccountsInv
<1>7. ASSUME NEW b \in Pending', requesting'[b].kind = "update", Target(b)' \notin overlapped'
      PROVE  Read(Target(b), requesting[b])'
  <2>1. Target(b) # Target(a) /\ Target(b) \in Users
    BY <1>2, <1>3, <1>7 DEF AccountsInv
  <2>2. b \in Pending /\ requesting[b].kind = "update" /\ Target(b) \notin overlapped
    BY <1>2, <1>3, <1>7
  <2>3. Read(Target(b), requesting[b])
    BY <2>2 DEF AccountsInv
  <2>4. users'[Target(b)] = users[Target(b)]
    BY <2>1
  <2>. QED BY <1>3, <2>3, <2>4 DEF Read
<1>8. \A u \in Users : BothOrNone(users'[u]) => BothOrNone(users[u])'
  BY DEF BothOrNone
<1>. QED BY <1>1, <1>4, <1>5, <1>6, <1>7, <1>8 DEF AccountsInv

(* set_administrator changes both halves, where it read what is there.      *)
LEMMA SetAdministratorSound ==
  ASSUME NEW row, NEW seen, NEW on \in BOOLEAN, NEW id, BothOrNone(row),
         seen.is_admin = row.is_admin, seen.admin_rows = row.admin_rows
  PROVE  BothOrNone(SetAdministrator(row, seen, on, id))
BY DEF BothOrNone, SetAdministrator, Columns

LEMMA SetAdministratorShape ==
  ASSUME NEW row, NEW seen, NEW on, NEW id, row = [c \in Columns |-> row[c]]
  PROVE  LET r == SetAdministrator(row, seen, on, id) IN r = [c \in Columns |-> r[c]]
BY DEF SetAdministrator, Columns

LEMMA CommitUpdateSound ==
  ASSUME AccountsInv, NEW a \in Users, CommitUpdate(a)
  PROVE  AccountsInv'
<1>. DEFINE p == requesting[a]
            row == users[p.target]
            active == [row EXCEPT !.is_active = IF p.active = p.seen.is_active THEN @ ELSE p.active]
            new == IF p.touch THEN SetAdministrator(active, p.seen, p.admin, p.id) ELSE active
<1>1. Commits(a, "update") /\ a \in Pending /\ p.target \in Users /\ Target(a) = p.target
  BY DEF CommitUpdate, Commits, Pending, NoRequest, Target, AccountsInv
<1>2. CASE ~Exists(p.target)
  <2>1. users' = users
    BY <1>2 DEF CommitUpdate, Unchanged
  <2>. QED BY <1>1, <1>2, <2>1, CommitSound DEF AccountsInv, Exists
<1>3. CASE Exists(p.target)
  <2>1. users' = [users EXCEPT ![p.target] = new]
    BY <1>3 DEF CommitUpdate
  <2>2. row = [c \in Columns |-> row[c]]
    BY <1>1, <1>3 DEF AccountsInv
  <2>3. active = [c \in Columns |-> active[c]]
    BY <2>2 DEF Columns
  <2>4. new = [c \in Columns |-> new[c]]
    <3>. HIDE DEF active
    <3>. QED BY <2>3, SetAdministratorShape
  <2>5. ASSUME p.target \notin overlapped
        PROVE  BothOrNone(new)
    <3>1. BothOrNone(row) /\ Read(p.target, p)
      BY <1>1, <1>3, <2>5 DEF AccountsInv, Commits
    <3>2. BothOrNone(active) /\ active.is_admin = row.is_admin /\ active.admin_rows = row.admin_rows
      BY <3>1 DEF BothOrNone, Columns
    <3>3. CASE p.touch
      <4>. HIDE DEF active
      <4>. QED BY <3>1, <3>2, <3>3, SetAdministratorSound DEF Read
    <3>4. CASE ~p.touch
      BY <3>2, <3>4
    <3>. QED BY <3>3, <3>4
  <2>. HIDE DEF new
  <2>6. users'[p.target] = new /\ users' = [u \in Users |-> users'[u]]
        /\ \A u \in Users : u # p.target => users'[u] = users[u]
    BY <1>1, <2>1 DEF AccountsInv
  <2>. HIDE DEF p
  <2>. QED BY <1>1, <2>4, <2>5, <2>6, CommitSound
<1>. QED BY <1>2, <1>3

LEMMA CommitCreateSound ==
  ASSUME AccountsInv, NEW a \in Users, CommitCreate(a)
  PROVE  AccountsInv'
<1>. DEFINE p == requesting[a]
            u == p.target
            new == IF p.admin THEN SetAdministrator(NewUser, NewUser, TRUE, p.id) ELSE NewUser
<1>1. Commits(a, "create") /\ u \in Users /\ Target(a) = u
  BY DEF CommitCreate, Commits, Pending, NoRequest, Target, AccountsInv
<1>2. users' = users \/ users' = [users EXCEPT ![u] = new]
  BY DEF CommitCreate, Unchanged
<1>3. CASE users' = users
  BY <1>1, <1>3, CommitSound DEF AccountsInv, Exists
<1>4. CASE users' = [users EXCEPT ![u] = new]
  <2>1. BothOrNone(new)
    BY DEF NewUser, SetAdministrator, BothOrNone, Columns
  <2>2. new = [c \in Columns |-> new[c]]
    BY <2>1 DEF BothOrNone
  <2>. HIDE DEF new
  <2>3. users'[u] = new /\ users' = [v \in Users |-> users'[v]]
        /\ \A v \in Users : v # u => users'[v] = users[v]
    BY <1>1, <1>4 DEF AccountsInv
  <2>. HIDE DEF u
  <2>. QED BY <1>1, <2>1, <2>2, <2>3, CommitSound
<1>. QED BY <1>2, <1>3, <1>4

LEMMA CommitDeleteSound ==
  ASSUME AccountsInv, NEW a \in Users, CommitDelete(a)
  PROVE  AccountsInv'
<1>1. Commits(a, "delete") /\ Target(a) \in Users
  BY DEF CommitDelete, Commits, Pending, NoRequest, AccountsInv
<1>2. users'[Target(a)] = NoUser /\ users' = [u \in Users |-> users'[u]]
      /\ \A u \in Users : u # Target(a) => users'[u] = users[u]
  BY <1>1 DEF CommitDelete, AccountsInv
<1>. QED BY <1>1, <1>2, CommitSound DEF Exists

(* The other roles are no part of it.                                       *)
LEMMA RolesAside ==
  ASSUME NEW row, NEW r
  PROVE  LET new == [row EXCEPT !.roles = r] IN
         /\ row = [c \in Columns |-> row[c]] => new = [c \in Columns |-> new[c]]
         /\ BothOrNone(row) => BothOrNone(new)
BY DEF BothOrNone, Columns

LEMMA RolesSound ==
  ASSUME AccountsInv, NEW a \in Users, NEW kind, kind # "none", Commits(a, kind),
         \/ users' = users
         \/ Exists(Target(a)) /\ \E r : users' = [users EXCEPT ![Target(a)].roles = r]
  PROVE  AccountsInv'
<1>1. Target(a) \in Users
  BY DEF Commits, Pending, NoRequest, AccountsInv
<1>2. CASE users' = users
  BY <1>1, <1>2, CommitSound DEF AccountsInv, Exists
<1>3. ASSUME NEW r, users' = [users EXCEPT ![Target(a)].roles = r], Exists(Target(a))
      PROVE  AccountsInv'
  <2>. DEFINE u == Target(a)
              new == [users[u] EXCEPT !.roles = r]
  <2>1. users'[u] = new /\ users' = [v \in Users |-> users'[v]]
        /\ \A v \in Users : v # u => users'[v] = users[v]
    BY <1>1, <1>3 DEF AccountsInv
  <2>2. /\ new = [c \in Columns |-> new[c]]
        /\ u \notin overlapped => BothOrNone(new)
    BY <1>1, <1>3, RolesAside DEF AccountsInv
  <2>. HIDE DEF new
  <2>. QED BY <2>1, <2>2, CommitSound
<1>. QED BY <1>2, <1>3

LEMMA CommitsSound ==
  ASSUME AccountsInv, NEW a \in Users, CommitRoles(a) \/ CommitUnrole(a)
  PROVE  AccountsInv'
<1>1. CASE CommitRoles(a)
  BY <1>1, RolesSound DEF CommitRoles, Unchanged, Target
<1>2. CASE CommitUnrole(a)
  BY <1>2, RolesSound DEF CommitUnrole, Target
<1>. QED BY <1>1, <1>2

LEMMA RequestsSound ==
  ASSUME AccountsInv, NEW a \in Users, NEW u \in Users,
         \/ Signup(a) \/ AcceptInvite(a) \/ Update(a, u) \/ Delete(a, u) \/ Create(a, u)
         \/ AssignRoles(a, u) \/ RemoveRole(a, u)
  PROVE  AccountsInv'
<1>1. CASE Update(a, u)
  <2>1. PICK active \in BOOLEAN, admin \in BOOLEAN, touch \in BOOLEAN :
          Begin(a, [kind |-> "update", target |-> u, active |-> active, touch |-> touch,
                    admin |-> admin, seen |-> Seen(u), id |-> begun + 1])
    BY <1>1 DEF Update
  <2>. DEFINE p == [kind |-> "update", target |-> u, active |-> active, touch |-> touch,
                    admin |-> admin, seen |-> Seen(u), id |-> begun + 1]
  <2>2. p # NoRequest /\ p.target = u /\ Read(p.target, p) /\ Begin(a, p)
    BY <2>1 DEF NoRequest, Read, Seen
  <2>. HIDE DEF p
  <2>. QED BY <2>2, BeginSound
<1>2. ASSUME NEW p, Begin(a, p), p.target \in Users, p.kind \notin {"update", "none"}
      PROVE  AccountsInv'
  BY <1>2, BeginSound DEF NoRequest
<1>3. CASE Signup(a) \/ AcceptInvite(a) \/ Create(a, u)
  <2>1. \E v \in Users : \E admin, by : Begin(a, NewAccount(v, admin, by))
    BY <1>3 DEF Signup, AcceptInvite, Create
  <2>. QED BY <1>2, <2>1 DEF NewAccount
<1>4. CASE Delete(a, u)
  BY <1>2, <1>4 DEF Delete
<1>5. CASE AssignRoles(a, u)
  BY <1>2, <1>5 DEF AssignRoles
<1>6. CASE RemoveRole(a, u)
  BY <1>2, <1>6 DEF RemoveRole
<1>. QED BY <1>1, <1>3, <1>4, <1>5, <1>6

LEMMA AccountsInductive ==
  ASSUME AccountsInv, [AccountsNext]_accountsVars
  PROVE  AccountsInv'
<1>1. CASE UNCHANGED <<users, requesting, overlapped>>
  BY <1>1 DEF AccountsInv, Exists, BothOrNone, Pending, Target, Read
<1>2. CASE UNCHANGED accountsVars
  BY <1>1, <1>2 DEF accountsVars
<1>3. ASSUME NEW a \in Users,
             \/ CleanupInvites(a) \/ ExpireInvite(a)
             \/ \E u \in Users : CreateInvite(a, u) \/ ResendInvite(a, u) \/ RevokeInvite(a, u)
             \/ \E r \in Roles : CreateRole(a, r) \/ UpdateRole(a, r) \/ DeleteRole(a, r)
      PROVE  UNCHANGED <<users, requesting, overlapped>>
  BY <1>3 DEF CleanupInvites, ExpireInvite, CreateInvite, ResendInvite, RevokeInvite,
              CreateRole, UpdateRole, DeleteRole, SetInvite, rolesRest
<1>4. ASSUME NEW a \in Users,
             \/ CommitUpdate(a) \/ CommitDelete(a) \/ CommitCreate(a) \/ CommitRoles(a)
             \/ CommitUnrole(a)
      PROVE  AccountsInv'
  BY <1>4, CommitUpdateSound, CommitDeleteSound, CommitCreateSound, CommitsSound
<1>5. ASSUME NEW a \in Users,
             \/ Signup(a) \/ AcceptInvite(a)
             \/ \E u \in Users : \/ Update(a, u) \/ Delete(a, u) \/ Create(a, u)
                                 \/ AssignRoles(a, u) \/ RemoveRole(a, u)
      PROVE  AccountsInv'
  BY <1>5, RequestsSound
<1>. QED BY <1>1, <1>2, <1>3, <1>4, <1>5 DEF AccountsNext

(* Whatever makes or unmakes an administrator changes both halves.          *)
THEOREM AdministratorHasBothAlways == AccountsSpec => []AdministratorHasBoth
<1>1. AccountsInit => AccountsInv
  BY DEF AccountsInit, AccountsInv, Exists, Pending
<1>2. AccountsInv /\ [AccountsNext]_accountsVars => AccountsInv'
  BY AccountsInductive
<1>3. AccountsInv => AdministratorHasBoth
  BY DEF AccountsInv, AdministratorHasBoth, BothOrNone
<1>. QED BY <1>1, <1>2, <1>3, PTL DEF AccountsSpec

-----------------------------------------------------------------------------
(* Somebody has an account. *)
Somebody == \E u \in Users : Exists(u)

(* What the rows and the requests hold.                                     *)
RowsTyped == \A u \in Users : Exists(u) => users[u] \in AccountRows
RequestTyped(p) ==
  /\ p.kind = "update" =>
       {p.active, p.touch, p.admin, p.seen.is_active, p.seen.is_admin} \subseteq BOOLEAN
  /\ p.kind \in {"update", "create"} => p.id \in Nat
  /\ p.kind = "roles" => \A s \in DOMAIN p.new : p.new[s] \in Roles
RequestsTyped ==
  /\ invites = [u \in Users |-> invites[u]]
  /\ begun \in Nat /\ DOMAIN grants \subseteq Roles
  /\ \A a \in Pending : RequestTyped(requesting[a])

(* While nothing went past the guards, at most one request takes somebody's *)
(* access away, and it leaves another administrator; an account that is no  *)
(* administrator's, and an invitation, come after the first account.        *)
OneRemoval ==
  \A a, b \in Pending : Removes(requesting[a]) /\ Removes(requesting[b]) => a = b
AnotherRemains ==
  \A a \in Pending : Removes(requesting[a]) => ActiveAdministrators \ {Target(a)} # {}
LaterAccounts ==
  \A a \in Pending : requesting[a].kind = "create" /\ ~requesting[a].admin => Somebody
LaterInvites == \A u \in Users : invites[u].status # "none" => Somebody
(* The inductive invariant, beside AccountsInv.                             *)
RemainInv ==
  /\ RowsTyped /\ RequestsTyped
  /\ AnAdministratorRemains
  /\ ~unguarded => OneRemoval /\ AnotherRemains /\ LaterAccounts /\ LaterInvites

(* A request begins that goes past no guard, or is marked as one that does. *)
LEMMA RemainsBegin ==
  ASSUME AccountsInv, RemainInv, NEW a \in Users, NEW p, Begin(a, p), p # NoRequest,
         RequestTyped(p), p.kind = "create" /\ ~p.admin /\ ~unguarded => Somebody,
         Removes(p) /\ (Unchecked(p) => Administrator(a)) =>
           ActiveAdministrators \ {p.target} # {}
  PROVE  RemainInv'
<1>1. /\ requesting'[a] = p /\ \A b \in Users \ {a} : requesting'[b] = requesting[b]
      /\ users' = users /\ invites' = invites
      /\ unguarded' <=> \/ unguarded
                        \/ Unchecked(p) /\ ~Administrator(a)
                        \/ Removes(p) /\ \E b \in Pending : Removes(requesting[b])
  BY DEF Begin, AccountsInv
<1>2. Pending' = Pending \cup {a} /\ a \notin Pending
  BY <1>1 DEF Begin, Pending
<1>3. Target(a)' = p.target /\ \A b \in Pending : /\ Target(b)' = Target(b)
                                                 /\ requesting'[b] = requesting[b]
  BY <1>1, <1>2 DEF Target, Pending
<1>4. /\ \A u \in Users : Exists(u)' <=> Exists(u)
      /\ ActiveAdministrators' = ActiveAdministrators
      /\ Somebody' <=> Somebody
  BY <1>1 DEF Exists, ActiveAdministrators, Administrator, Somebody
<1>5. RowsTyped'
  BY <1>1, <1>4 DEF RemainInv, RowsTyped
<1>6. RequestsTyped'
  <2>1. \A b \in Pending' : RequestTyped(requesting'[b])
    BY <1>1, <1>2, <1>3 DEF RemainInv, RequestsTyped
  <2>2. begun' \in Nat /\ grants' = grants
    BY DEF Begin, RemainInv, RequestsTyped
  <2>3. \A b \in Pending' : RequestTyped(requesting[b])'
    BY <2>1 DEF RequestTyped
  <2>. QED BY <1>1, <2>2, <2>3 DEF RemainInv, RequestsTyped
<1>7. AnAdministratorRemains'
  BY <1>1, <1>4 DEF RemainInv, AnAdministratorRemains, Somebody
<1>8. ASSUME ~unguarded'
      PROVE  (OneRemoval /\ AnotherRemains /\ LaterAccounts /\ LaterInvites)'
  <2>1. /\ ~unguarded /\ (Unchecked(p) => Administrator(a))
        /\ Removes(p) => \A b \in Pending : ~Removes(requesting[b])
    BY <1>1, <1>8
  <2>2. OneRemoval /\ AnotherRemains /\ LaterAccounts /\ LaterInvites
    BY <2>1 DEF RemainInv
  <2>3. \A b \in Pending' : requesting'[b] = IF b = a THEN p ELSE requesting[b]
    BY <1>1, <1>2, <1>3
  <2>4. OneRemoval'
    <3>1. \A b, c \in Pending' : Removes(requesting'[b]) /\ Removes(requesting'[c]) => b = c
      BY <1>2, <2>1, <2>2, <2>3 DEF OneRemoval
    <3>. QED BY <3>1 DEF OneRemoval, Removes, Unchecked
  <2>5. AnotherRemains'
    <3>1. \A b \in Pending' : Removes(requesting'[b]) => ActiveAdministrators \ {Target(b)'} # {}
      BY <1>2, <1>3, <2>1, <2>2, <2>3 DEF AnotherRemains
    <3>. QED BY <1>4, <3>1 DEF AnotherRemains, Removes, Unchecked
  <2>6. LaterAccounts'
    BY <1>2, <1>4, <2>1, <2>2, <2>3 DEF LaterAccounts
  <2>7. LaterInvites'
    BY <1>1, <1>4, <2>2 DEF LaterInvites
  <2>. QED BY <2>4, <2>5, <2>6, <2>7
<1>. QED BY <1>5, <1>6, <1>7, <1>8 DEF RemainInv

(* A request ends, and takes access from nobody but the one it is about,    *)
(* and only if it is such a request.                                        *)
LEMMA RemainsCommit ==
  ASSUME AccountsInv, RemainInv, NEW a \in Users, NEW kind, kind # "none", Commits(a, kind),
         RowsTyped',
         \A u \in ActiveAdministrators :
           u # Target(a) \/ ~Removes(requesting[a]) => u \in ActiveAdministrators',
         ~unguarded /\ Somebody' /\ ~Somebody => ActiveAdministrators' # {},
         grants' = grants, invites' = [u \in Users |-> invites'[u]],
         \A u \in Users : invites'[u].status # "none" /\ invites[u].status = "none" => Somebody'
  PROVE  RemainInv'
<1>1. /\ requesting'[a] = NoRequest /\ unguarded' = unguarded
      /\ \A b \in Users \ {a} : requesting'[b] = requesting[b]
  BY DEF Commits, AccountsInv
<1>2. a \in Pending /\ Pending' = Pending \ {a}
  BY <1>1 DEF Commits, Pending, NoRequest
<1>3. \A b \in Pending' : Target(b)' = Target(b) /\ requesting'[b] = requesting[b]
  BY <1>1, <1>2 DEF Target, Pending
<1>4. RequestsTyped'
  <2>1. \A b \in Pending' : RequestTyped(requesting'[b])
    BY <1>2, <1>3 DEF RemainInv, RequestsTyped
  <2>2. begun' \in Nat /\ DOMAIN grants' \subseteq Roles
    BY DEF Commits, RemainInv, RequestsTyped
  <2>3. \A b \in Pending' : RequestTyped(requesting[b])'
    BY <2>1 DEF RequestTyped
  <2>. QED BY <2>2, <2>3 DEF RequestsTyped
<1>5. ASSUME ~unguarded
      PROVE  /\ Somebody => ActiveAdministrators' # {}
             /\ Somebody => Somebody'
  <2>1. CASE Removes(requesting[a])
    <3>1. ActiveAdministrators \ {Target(a)} # {}
      BY <1>2, <1>5, <2>1 DEF RemainInv, AnotherRemains
    <3>2. ActiveAdministrators' # {}
      BY <3>1
    <3>. QED BY <3>2 DEF ActiveAdministrators, Administrator, Somebody
  <2>2. CASE ~Removes(requesting[a])
    <3>1. Somebody => ActiveAdministrators # {}
      BY <1>5 DEF RemainInv, AnAdministratorRemains, Somebody
    <3>2. Somebody => ActiveAdministrators' # {}
      BY <2>2, <3>1
    <3>. QED BY <3>2 DEF ActiveAdministrators, Administrator, Somebody
  <2>. QED BY <2>1, <2>2
<1>6. AnAdministratorRemains'
  BY <1>1, <1>5 DEF AnAdministratorRemains, Somebody
<1>7. ASSUME ~unguarded'
      PROVE  (OneRemoval /\ AnotherRemains /\ LaterAccounts /\ LaterInvites)'
  <2>1. ~unguarded /\ OneRemoval /\ AnotherRemains /\ LaterAccounts /\ LaterInvites
    BY <1>1, <1>7 DEF RemainInv
  <2>2. OneRemoval'
    BY <1>2, <1>3, <2>1 DEF OneRemoval, Removes, Unchecked
  <2>3. AnotherRemains'
    <3>1. ASSUME NEW b \in Pending', Removes(requesting[b])
          PROVE  ActiveAdministrators' \ {Target(b)} # {}
      <4>1. ~Removes(requesting[a]) /\ b \in Pending
        BY <1>2, <2>1, <3>1 DEF OneRemoval
      <4>2. ActiveAdministrators \ {Target(b)} # {}
        BY <2>1, <3>1, <4>1 DEF AnotherRemains
      <4>. QED BY <4>1, <4>2
    <3>. QED BY <1>3, <3>1 DEF AnotherRemains, Removes, Unchecked
  <2>4. LaterAccounts'
    BY <1>2, <1>3, <1>5, <2>1 DEF LaterAccounts
  <2>5. LaterInvites'
    BY <1>5, <2>1 DEF LaterInvites
  <2>. QED BY <2>2, <2>3, <2>4, <2>5
<1>. QED BY <1>4, <1>6, <1>7 DEF RemainInv

(* No account changes. *)
LEMMA UsersStay ==
  ASSUME users' = users
  PROVE  /\ ActiveAdministrators' = ActiveAdministrators
         /\ Somebody' <=> Somebody
         /\ RowsTyped' <=> RowsTyped
BY DEF ActiveAdministrators, Administrator, Somebody, Exists, RowsTyped

(* One account changes: what that takes and gives. *)
LEMMA OneAccount ==
  ASSUME AccountsInv, NEW t \in Users, NEW row \in AccountRows \cup {NoUser},
         users' = [users EXCEPT ![t] = row]
  PROVE  /\ \A u \in Users \ {t} : users'[u] = users[u]
         /\ users'[t] = row
         /\ \A u \in ActiveAdministrators \ {t} : u \in ActiveAdministrators'
         /\ RowsTyped => RowsTyped'
         /\ row # NoUser => Somebody'
         /\ row # NoUser /\ row.is_active /\ (row.is_admin \/ row.admin_rows # {})
              => t \in ActiveAdministrators'
<1>1. users'[t] = row /\ \A u \in Users \ {t} : users'[u] = users[u]
  BY DEF AccountsInv
<1>2. RowsTyped => RowsTyped'
  BY <1>1 DEF RowsTyped, Exists
<1>. QED BY <1>1, <1>2 DEF ActiveAdministrators, Administrator, Exists, Somebody

(* A changed account: an activity or a flag that was not to be removed stays. *)
LEMMA UpdateRemains ==
  ASSUME AccountsInv, RemainInv, NEW a \in Users, CommitUpdate(a)
  PROVE  RemainInv'
<1>. DEFINE p == requesting[a]
            row == users[p.target]
            on == IF p.active = p.seen.is_active THEN row.is_active ELSE p.active
            active == [row EXCEPT !.is_active = on]
            new == IF p.touch THEN SetAdministrator(active, p.seen, p.admin, p.id) ELSE active
<1>1. /\ Commits(a, "update") /\ p.kind = "update" /\ a \in Pending /\ p.target \in Users
      /\ Target(a) = p.target
  BY DEF CommitUpdate, Commits, Pending, NoRequest, Target, AccountsInv
<1>2. /\ {p.active, p.touch, p.admin, p.seen.is_active, p.seen.is_admin} \subseteq BOOLEAN
      /\ p.id \in Nat
  BY <1>1 DEF RemainInv, RequestsTyped, RequestTyped
<1>3. /\ invites' = invites /\ invites = [u \in Users |-> invites[u]] /\ RowsTyped
      /\ grants' = grants
  BY DEF CommitUpdate, Unchanged, RemainInv, RequestsTyped
<1>4. CASE ~Exists(p.target)
  <2>1. users' = users
    BY <1>4 DEF CommitUpdate, Unchanged
  <2>. QED BY <1>1, <1>3, <2>1, UsersStay, RemainsCommit
<1>5. CASE Exists(p.target)
  <2>1. users' = [users EXCEPT ![p.target] = new]
    BY <1>5 DEF CommitUpdate
  <2>2. row \in AccountRows
    BY <1>1, <1>3, <1>5 DEF RowsTyped
  <2>3. on \in BOOLEAN
    BY <1>2, <2>2 DEF AccountRows
  <2>. HIDE DEF row, on
  <2>4. /\ active \in AccountRows /\ active.is_active = on
        /\ active.is_admin = row.is_admin /\ active.admin_rows = row.admin_rows
    BY <2>2, <2>3 DEF AccountRows
  <2>. HIDE DEF active
  <2>5. /\ new \in AccountRows /\ new.is_active = on
        /\ ~p.touch => new.is_admin = row.is_admin /\ new.admin_rows = row.admin_rows
        /\ p.touch => /\ new.is_admin = IF p.admin = p.seen.is_admin THEN row.is_admin ELSE p.admin
                      /\ p.admin => row.admin_rows \subseteq new.admin_rows
    <3>1. CASE p.touch
      <4>. DEFINE flag == IF p.admin = p.seen.is_admin THEN active.is_admin ELSE p.admin
                  held == IF ~p.admin THEN active.admin_rows \ p.seen.admin_rows
                          ELSE IF p.seen.admin_rows = {} THEN active.admin_rows \cup {p.id}
                          ELSE active.admin_rows
      <4>1. /\ flag \in BOOLEAN /\ held \in SUBSET Nat
            /\ p.admin => active.admin_rows \subseteq held
        BY <1>2, <2>4 DEF AccountRows
      <4>2. new = [active EXCEPT !.is_admin = flag, !.admin_rows = held]
        BY <3>1 DEF SetAdministrator
      <4>. HIDE DEF flag, held, new
      <4>3. /\ new \in AccountRows /\ new.is_active = active.is_active
            /\ new.is_admin = flag /\ new.admin_rows = held
        BY <2>4, <4>1, <4>2 DEF AccountRows
      <4>. QED BY <2>4, <3>1, <4>1, <4>3 DEF flag
    <3>2. CASE ~p.touch
      BY <2>4, <3>2
    <3>. QED BY <3>1, <3>2
  <2>. HIDE DEF new
  <2>6. ASSUME ~Removes(p), row.is_active, row.is_admin \/ row.admin_rows # {}
        PROVE  new.is_active /\ (new.is_admin \/ new.admin_rows # {})
    <3>1. ~(p.seen.is_active /\ ~p.active) /\ ~(p.touch /\ ~p.admin)
      BY <1>1, <2>6 DEF Removes, Unchecked
    <3>2. new.is_active
      BY <1>2, <2>5, <2>6, <3>1 DEF on
    <3>3. new.is_admin \/ new.admin_rows # {}
      BY <1>2, <2>5, <2>6, <3>1
    <3>. QED BY <3>2, <3>3
  <2>7. RowsTyped' /\ Somebody
    BY <1>1, <1>3, <1>5, <2>1, <2>5, OneAccount DEF Somebody
  <2>8. ASSUME NEW u \in ActiveAdministrators, u # Target(a) \/ ~Removes(p)
        PROVE  u \in ActiveAdministrators'
    <3>1. CASE u # Target(a)
      BY <1>1, <2>1, <2>5, <3>1, OneAccount
    <3>2. CASE u = Target(a)
      <4>1. row.is_active /\ (row.is_admin \/ row.admin_rows # {}) /\ ~Removes(p)
        BY <1>1, <2>8, <3>2 DEF ActiveAdministrators, Administrator, row
      <4>2. new.is_active /\ (new.is_admin \/ new.admin_rows # {}) /\ new # NoUser
        BY <2>5, <2>6, <4>1, AccountsAssumption
      <4>. QED BY <1>1, <2>1, <2>5, <3>2, <4>2, OneAccount
    <3>. QED BY <3>1, <3>2
  <2>. QED BY <1>1, <1>3, <2>7, <2>8, RemainsCommit
<1>. QED BY <1>4, <1>5

(* A deletion is a removal.                                                 *)
LEMMA DeleteRemains ==
  ASSUME AccountsInv, RemainInv, NEW a \in Users, CommitDelete(a)
  PROVE  RemainInv'
<1>1. Commits(a, "delete") /\ requesting[a].kind = "delete" /\ Target(a) \in Users
  BY DEF CommitDelete, Commits, Pending, NoRequest, AccountsInv
<1>2. /\ invites' = invites /\ invites = [u \in Users |-> invites[u]] /\ RowsTyped
      /\ grants' = grants /\ users' = [users EXCEPT ![Target(a)] = NoUser]
  BY DEF CommitDelete, RemainInv, RequestsTyped
<1>3. Removes(requesting[a])
  BY <1>1 DEF Removes, Unchecked
<1>4. RowsTyped' /\ \A u \in ActiveAdministrators \ {Target(a)} : u \in ActiveAdministrators'
  BY <1>1, <1>2, OneAccount
<1>5. Somebody' => Somebody
  BY <1>1, <1>2, OneAccount DEF Somebody, Exists
<1>. QED BY <1>1, <1>2, <1>3, <1>4, <1>5, RemainsCommit

(* The first account of all is an administrator's.                          *)
LEMMA CreateRemains ==
  ASSUME AccountsInv, RemainInv, NEW a \in Users, CommitCreate(a)
  PROVE  RemainInv'
<1>. DEFINE p == requesting[a]
            u == p.target
            new == IF p.admin THEN SetAdministrator(NewUser, NewUser, TRUE, p.id) ELSE NewUser
<1>1. /\ Commits(a, "create") /\ p.kind = "create" /\ a \in Pending /\ u \in Users
      /\ Target(a) = u /\ p.id \in Nat
  BY DEF CommitCreate, Commits, Pending, NoRequest, Target, AccountsInv, RemainInv,
         RequestsTyped, RequestTyped
<1>2. invites = [v \in Users |-> invites[v]] /\ RowsTyped /\ grants' = grants
  BY DEF CommitCreate, Unchanged, RemainInv, RequestsTyped
<1>3. CASE users' = users /\ invites' = invites
  BY <1>1, <1>2, <1>3, UsersStay, RemainsCommit
<1>4. CASE /\ ~Exists(u) /\ users' = [users EXCEPT ![u] = new]
           /\ invites' = invites \/ invites' = [invites EXCEPT ![u].status = "accepted"]
  <2>1. NewUser \in AccountRows /\ NewUser.is_active /\ ~NewUser.is_admin
    BY DEF NewUser, AccountRows
  <2>2. /\ new \in AccountRows /\ new.is_active
        /\ p.admin => new.is_admin
    <3>1. CASE p.admin
      <4>1. new = [is_admin |-> TRUE, admin_rows |-> {p.id}, is_active |-> TRUE,
                   roles |-> [s \in Scopes |-> {}]]
        BY <3>1 DEF SetAdministrator, NewUser
      <4>. HIDE DEF new
      <4>. QED BY <1>1, <4>1 DEF AccountRows
    <3>2. CASE ~p.admin
      BY <2>1, <3>2
    <3>. QED BY <3>1, <3>2
  <2>3. new # NoUser
    BY <2>2, AccountsAssumption
  <2>. HIDE DEF new
  <2>4. RowsTyped' /\ Somebody' /\ (p.admin => u \in ActiveAdministrators')
    BY <1>1, <1>2, <1>4, <2>2, <2>3, OneAccount
  <2>5. \A v \in ActiveAdministrators : v \in ActiveAdministrators'
    <3>1. u \notin ActiveAdministrators
      BY <1>4 DEF ActiveAdministrators, Administrator
    <3>. QED BY <1>1, <1>4, <2>2, <3>1, OneAccount
  <2>6. ~unguarded /\ ~Somebody => ActiveAdministrators' # {}
    BY <1>1, <2>4 DEF RemainInv, LaterAccounts
  <2>7. invites' = [v \in Users |-> invites'[v]]
    BY <1>2, <1>4
  <2>. HIDE DEF u
  <2>. QED BY <1>1, <1>2, <2>4, <2>5, <2>6, <2>7, RemainsCommit
<1>. QED BY <1>3, <1>4 DEF CommitCreate, Unchanged

(* Other roles are no part of it. *)
LEMMA RolesRemain ==
  ASSUME AccountsInv, RemainInv, NEW a \in Users, NEW kind, kind # "none", Commits(a, kind),
         grants' = grants, invites' = invites,
         \/ users' = users
         \/ /\ Exists(Target(a))
            /\ \E r \in [Scopes -> SUBSET Roles] :
                 users' = [users EXCEPT ![Target(a)] = [@ EXCEPT !.roles = r]]
  PROVE  RemainInv'
<1>1. Target(a) \in Users /\ invites = [v \in Users |-> invites[v]] /\ RowsTyped
  BY DEF Commits, Pending, NoRequest, AccountsInv, RemainInv, RequestsTyped
<1>2. CASE users' = users
  BY <1>1, <1>2, UsersStay, RemainsCommit
<1>3. ASSUME NEW r \in [Scopes -> SUBSET Roles], Exists(Target(a)),
             users' = [users EXCEPT ![Target(a)] = [@ EXCEPT !.roles = r]]
      PROVE  RemainInv'
  <2>. DEFINE t == Target(a)
              new == [users[t] EXCEPT !.roles = r]
  <2>1. users[t] \in AccountRows
    BY <1>1, <1>3 DEF RowsTyped
  <2>2. /\ new \in AccountRows /\ new.is_active = users[t].is_active
        /\ new.is_admin = users[t].is_admin /\ new.admin_rows = users[t].admin_rows
    BY <1>3, <2>1 DEF AccountRows
  <2>3. users' = [users EXCEPT ![t] = new]
    BY <1>1, <1>3 DEF AccountsInv
  <2>4. new # NoUser
    BY <2>2, AccountsAssumption
  <2>. HIDE DEF new
  <2>5. RowsTyped' /\ Somebody /\ \A u \in ActiveAdministrators \ {t} : u \in ActiveAdministrators'
    BY <1>1, <1>3, <2>2, <2>3, OneAccount DEF Somebody
  <2>6. t \in ActiveAdministrators => t \in ActiveAdministrators'
    <3>1. SUFFICES ASSUME t \in ActiveAdministrators PROVE t \in ActiveAdministrators'
      OBVIOUS
    <3>2. users[t].is_active /\ (users[t].is_admin \/ users[t].admin_rows # {})
      BY <3>1 DEF ActiveAdministrators, Administrator
    <3>. QED BY <1>1, <2>2, <2>3, <2>4, <3>2, OneAccount
  <2>. HIDE DEF t
  <2>7. \A u \in ActiveAdministrators : u \in ActiveAdministrators'
    BY <2>5, <2>6
  <2>. QED BY <1>1, <2>5, <2>7, RemainsCommit
<1>. QED BY <1>2, <1>3

(* A request about other roles ends.                                        *)
LEMMA RolesCommitRemains ==
  ASSUME AccountsInv, RemainInv, NEW a \in Users, CommitRoles(a) \/ CommitUnrole(a)
  PROVE  RemainInv'
<1>. DEFINE p == requesting[a]
            t == p.target
<1>1. p.kind \in {"roles", "unrole"} /\ a \in Pending /\ t = Target(a) /\ t \in Users
      /\ grants' = grants /\ invites' = invites
  <2>1. p.kind \in {"roles", "unrole"}
    BY DEF CommitRoles, CommitUnrole, Commits
  <2>2. a \in Pending /\ t = Target(a) /\ t \in Users
    BY <2>1 DEF Pending, NoRequest, Target, AccountsInv
  <2>3. CommitRoles(a) => UNCHANGED <<grants, invites>>
    BY DEF CommitRoles, Unchanged
  <2>4. CommitUnrole(a) => UNCHANGED <<grants, invites>>
    BY DEF CommitUnrole
  <2>. QED BY <2>1, <2>2, <2>3, <2>4
<1>2. Exists(t) => users[t] \in AccountRows /\ users[t].roles \in [Scopes -> SUBSET Roles]
  BY <1>1 DEF RemainInv, RowsTyped, AccountRows
<1>3. CASE CommitRoles(a)
  <2>. DEFINE in(s) == s \in DOMAIN p.prior /\ p.prior[s] # {}
              r == [s \in Scopes |->
                      IF s \notin DOMAIN p.new THEN users[t].roles[s]
                      ELSE (IF in(s) THEN users[t].roles[s] \ p.prior[s] ELSE users[t].roles[s])
                             \cup {p.new[s]}]
  <2>1. Commits(a, "roles") /\ p.kind = "roles"
    BY <1>3 DEF CommitRoles, Commits
  <2>2. \A s \in DOMAIN p.new : p.new[s] \in Roles
    BY <1>1, <2>1 DEF RemainInv, RequestsTyped, RequestTyped
  <2>3. CASE users' = users
    BY <1>1, <2>1, <2>3, RolesRemain
  <2>4. CASE Exists(t) /\ users' # users
    <3>1. users' = [users EXCEPT ![t] = [@ EXCEPT !.roles = r]]
      BY <1>3, <2>4 DEF CommitRoles, Unchanged
    <3>2. r \in [Scopes -> SUBSET Roles]
      BY <1>2, <2>2, <2>4
    <3>. HIDE DEF r
    <3>. QED BY <1>1, <2>1, <2>4, <3>1, <3>2, RolesRemain
  <2>. QED BY <1>3, <2>3, <2>4 DEF CommitRoles, Unchanged
<1>4. CASE CommitUnrole(a)
  <2>. DEFINE r == [users[t].roles EXCEPT ![p.scope] = @ \ {p.role}]
  <2>1. Commits(a, "unrole")
    BY <1>4 DEF CommitUnrole
  <2>2. CASE ~Exists(t)
    BY <1>1, <1>4, <2>1, <2>2, RolesRemain DEF CommitUnrole
  <2>3. CASE Exists(t)
    <3>1. users' = [users EXCEPT ![t] = [@ EXCEPT !.roles = r]]
      BY <1>1, <1>4, <2>3 DEF CommitUnrole, AccountsInv
    <3>2. r \in [Scopes -> SUBSET Roles]
      BY <1>2, <2>3
    <3>. HIDE DEF r
    <3>. QED BY <1>1, <2>1, <2>3, <3>1, <3>2, RolesRemain
  <2>. QED BY <2>2, <2>3
<1>. QED BY <1>3, <1>4

(* Every request that begins passes its guards.                             *)
LEMMA RequestsRemain ==
  ASSUME AccountsInv, RemainInv, NEW a \in Users, NEW u \in Users,
         \/ Signup(a) \/ AcceptInvite(a) \/ Update(a, u) \/ Delete(a, u) \/ Create(a, u)
         \/ AssignRoles(a, u) \/ RemoveRole(a, u)
  PROVE  RemainInv'
<1>0. RowsTyped /\ begun \in Nat /\ DOMAIN grants \subseteq Roles
  BY DEF RemainInv, RequestsTyped
<1>1. Permitted(a) => Somebody /\ (Administrator(a) => a \in ActiveAdministrators)
  BY DEF Permitted, Somebody, ActiveAdministrators
<1>2. CASE Update(a, u)
  <2>1. PICK active \in BOOLEAN, admin \in BOOLEAN, touch \in BOOLEAN :
          /\ u = a => active
          /\ touch /\ ~admin => a # u /\ ActiveAdministrators \ {u} # {}
          /\ Begin(a, [kind |-> "update", target |-> u, active |-> active, touch |-> touch,
                       admin |-> admin, seen |-> Seen(u), id |-> begun + 1])
    BY <1>2 DEF Update
  <2>. DEFINE p == [kind |-> "update", target |-> u, active |-> active, touch |-> touch,
                    admin |-> admin, seen |-> Seen(u), id |-> begun + 1]
  <2>2. /\ p # NoRequest /\ p.target = u /\ p.kind = "update" /\ Begin(a, p)
        /\ p.active = active /\ p.touch = touch /\ p.admin = admin
    BY <2>1 DEF NoRequest
  <2>3. RequestTyped(p)
    <3>1. Seen(u).is_active \in BOOLEAN /\ Seen(u).is_admin \in BOOLEAN
      BY <1>0, <1>2 DEF Update, Seen, RowsTyped, AccountRows
    <3>. QED BY <1>0, <3>1 DEF RequestTyped
  <2>. HIDE DEF p
  <2>4. ASSUME Removes(p), Unchecked(p) => Administrator(a)
        PROVE  ActiveAdministrators \ {u} # {}
    <3>1. CASE Unchecked(p)
      <4>1. ~active /\ u # a
        BY <2>1, <2>2, <3>1 DEF Unchecked
      <4>. QED BY <1>1, <1>2, <2>4, <3>1, <4>1 DEF Update
    <3>2. CASE ~Unchecked(p)
      BY <2>1, <2>2, <2>4, <3>2 DEF Removes
    <3>. QED BY <3>1, <3>2
  <2>. QED BY <2>2, <2>3, <2>4, RemainsBegin
<1>3. CASE Delete(a, u)
  <2>. DEFINE p == [kind |-> "delete", target |-> u]
  <2>1. p # NoRequest /\ p.target = u /\ p.kind = "delete" /\ Begin(a, p) /\ RequestTyped(p)
    BY <1>3 DEF Delete, NoRequest, RequestTyped
  <2>. HIDE DEF p
  <2>2. Unchecked(p) /\ u # a /\ Permitted(a)
    BY <1>3, <2>1 DEF Unchecked, Delete
  <2>. QED BY <1>1, <2>1, <2>2, RemainsBegin
<1>4. ASSUME NEW p, Begin(a, p), p.target \in Users, p.kind \notin {"update", "delete", "none"},
             RequestTyped(p), p.kind = "create" /\ ~p.admin /\ ~unguarded => Somebody
      PROVE  RemainInv'
  BY <1>4, RemainsBegin DEF NoRequest, Removes, Unchecked
<1>5. ASSUME NEW v \in Users, NEW admin, NEW by, Begin(a, NewAccount(v, admin, by)),
             ~admin /\ ~unguarded => Somebody
      PROVE  RemainInv'
  BY <1>0, <1>4, <1>5 DEF NewAccount, RequestTyped
<1>6. CASE Signup(a)
  BY <1>5, <1>6 DEF Signup, Somebody
<1>7. CASE Create(a, u)
  BY <1>1, <1>5, <1>7 DEF Create
<1>8. CASE AcceptInvite(a)
  BY <1>5, <1>8 DEF AcceptInvite, RemainInv, LaterInvites
<1>9. CASE AssignRoles(a, u)
  <2>0. PICK at \in SUBSET Scopes \ {{}} : \E new \in [at -> DOMAIN grants] :
          Begin(a, [kind |-> "roles", target |-> u, new |-> new,
                    prior |-> [s \in at \ {Everywhere} |-> users[u].roles[s]]])
    BY <1>9 DEF AssignRoles
  <2>1. PICK new \in [at -> DOMAIN grants] :
          Begin(a, [kind |-> "roles", target |-> u, new |-> new,
                    prior |-> [s \in at \ {Everywhere} |-> users[u].roles[s]]])
    BY <2>0
  <2>. QED BY <1>0, <1>4, <2>1 DEF RequestTyped
<1>10. CASE RemoveRole(a, u)
  BY <1>4, <1>10 DEF RemoveRole, RequestTyped
<1>. QED BY <1>2, <1>3, <1>6, <1>7, <1>8, <1>9, <1>10

(* Roles and invitations change no account; only somebody with an account   *)
(* invites.                                                                 *)
LEMMA InvitesRemain ==
  ASSUME AccountsInv, RemainInv, UNCHANGED <<users, requesting, begun, overlapped, unguarded>>,
         DOMAIN grants' \subseteq Roles, invites' = [u \in Users |-> invites'[u]],
         \A u \in Users : invites'[u].status # "none" => invites[u].status # "none" \/ Somebody
  PROVE  RemainInv'
<1>1. /\ ActiveAdministrators' = ActiveAdministrators /\ (Somebody' <=> Somebody)
      /\ (RowsTyped' <=> RowsTyped)
  BY UsersStay
<1>2. Pending' = Pending /\ \A a : Target(a)' = Target(a)
  BY DEF Pending, Target
<1>3. RequestsTyped'
  BY <1>2 DEF RemainInv, RequestsTyped, RequestTyped
<1>4. AnAdministratorRemains'
  BY <1>1 DEF RemainInv, AnAdministratorRemains, Somebody
<1>5. ASSUME ~unguarded PROVE (OneRemoval /\ AnotherRemains /\ LaterAccounts /\ LaterInvites)'
  <2>1. OneRemoval /\ AnotherRemains /\ LaterAccounts /\ LaterInvites
    BY <1>5 DEF RemainInv
  <2>2. OneRemoval'
    BY <1>2, <2>1 DEF OneRemoval, Removes, Unchecked
  <2>3. AnotherRemains'
    BY <1>1, <1>2, <2>1 DEF AnotherRemains, Removes, Unchecked
  <2>4. LaterAccounts'
    BY <1>1, <1>2, <2>1 DEF LaterAccounts
  <2>5. LaterInvites'
    BY <1>1, <2>1 DEF LaterInvites
  <2>. QED BY <2>2, <2>3, <2>4, <2>5
<1>. QED BY <1>1, <1>3, <1>4, <1>5 DEF RemainInv

(* The one-step requests.                                                   *)
LEMMA SettingsRemain ==
  ASSUME AccountsInv, RemainInv, NEW a \in Users, NEW u \in Users,
         \/ CleanupInvites(a) \/ ExpireInvite(a) \/ CreateInvite(a, u) \/ ResendInvite(a, u)
         \/ RevokeInvite(a, u)
         \/ \E r \in Roles : CreateRole(a, r) \/ UpdateRole(a, r) \/ DeleteRole(a, r)
  PROVE  RemainInv'
<1>0. DOMAIN grants \subseteq Roles /\ invites = [v \in Users |-> invites[v]]
  BY DEF RemainInv, RequestsTyped
<1>1. CASE \E r \in Roles : CreateRole(a, r) \/ UpdateRole(a, r) \/ DeleteRole(a, r)
  <2>1. UNCHANGED <<users, requesting, begun, overlapped, unguarded, invites>>
    BY <1>1 DEF CreateRole, UpdateRole, DeleteRole, rolesRest
  <2>2. DOMAIN grants' \subseteq Roles
    BY <1>0, <1>1 DEF CreateRole, UpdateRole, DeleteRole
  <2>. QED BY <1>0, <2>1, <2>2, InvitesRemain
<1>2. ASSUME NEW v \in Users, NEW i, SetInvite(v, i),
             i.status # "none" => invites[v].status # "none" \/ Somebody
      PROVE  RemainInv'
  <2>1. UNCHANGED <<users, requesting, begun, overlapped, unguarded, grants>>
        /\ invites' = [invites EXCEPT ![v] = i]
    BY <1>2 DEF SetInvite, rolesRest
  <2>2. \A w \in Users : invites'[w] = IF w = v THEN i ELSE invites[w]
    BY <1>0, <2>1
  <2>. QED BY <1>0, <1>2, <2>1, <2>2, InvitesRemain
<1>3. CASE CreateInvite(a, u)
  <2>1. Somebody
    BY <1>3 DEF CreateInvite, Permitted, Somebody
  <2>. QED BY <1>2, <1>3, <2>1 DEF CreateInvite
<1>4. CASE ExpireInvite(a)
  BY <1>2, <1>4 DEF ExpireInvite
<1>5. CASE ResendInvite(a, u) \/ RevokeInvite(a, u)
  BY <1>2, <1>5 DEF ResendInvite, RevokeInvite
<1>6. CASE CleanupInvites(a)
  <2>1. UNCHANGED <<users, requesting, begun, overlapped, unguarded, grants>>
    BY <1>6 DEF CleanupInvites, rolesRest
  <2>2. invites' = [w \in Users |-> IF invites[w].status = "pending" THEN invites[w]
                                    ELSE [status |-> "none"]]
    BY <1>6 DEF CleanupInvites, NoInvite
  <2>3. /\ \A w \in Users : invites'[w].status # "none" => invites[w].status # "none"
        /\ invites' = [w \in Users |-> invites'[w]]
    BY <2>2
  <2>. QED BY <1>0, <2>1, <2>3, InvitesRemain
<1>. QED BY <1>1, <1>3, <1>4, <1>5, <1>6

(* Every step keeps the invariant. *)
LEMMA RemainStep ==
  ASSUME AccountsInv, RemainInv, [AccountsNext]_accountsVars
  PROVE  RemainInv'
<1>1. CASE UNCHANGED accountsVars
  <2>1. invites = [v \in Users |-> invites[v]] /\ DOMAIN grants \subseteq Roles
    BY DEF RemainInv, RequestsTyped
  <2>. QED BY <1>1, <2>1, InvitesRemain DEF accountsVars
<1>2. ASSUME NEW a \in Users,
             \/ CommitUpdate(a) \/ CommitDelete(a) \/ CommitCreate(a) \/ CommitRoles(a)
             \/ CommitUnrole(a)
      PROVE  RemainInv'
  BY <1>2, UpdateRemains, DeleteRemains, CreateRemains, RolesCommitRemains
<1>3. ASSUME NEW a \in Users,
             \/ Signup(a) \/ AcceptInvite(a)
             \/ \E u \in Users : \/ Update(a, u) \/ Delete(a, u) \/ Create(a, u)
                                 \/ AssignRoles(a, u) \/ RemoveRole(a, u)
      PROVE  RemainInv'
  BY <1>3, RequestsRemain
<1>4. ASSUME NEW a \in Users,
             \E r \in Roles : CreateRole(a, r) \/ UpdateRole(a, r) \/ DeleteRole(a, r)
      PROVE  RemainInv'
  BY <1>4, SettingsRemain
<1>5. ASSUME NEW a \in Users,
             \/ CleanupInvites(a) \/ ExpireInvite(a)
             \/ \E u \in Users : CreateInvite(a, u) \/ ResendInvite(a, u) \/ RevokeInvite(a, u)
      PROVE  RemainInv'
  BY <1>5, SettingsRemain
<1>. QED BY <1>1, <1>2, <1>3, <1>4, <1>5 DEF AccountsNext

(* For any people, roles and projects, and however their requests overlap,  *)
(* an installation that has an account has an active administrator, while   *)
(* no two removals overlap and nobody goes past the guards.                 *)
THEOREM AnAdministratorAlwaysRemains == AccountsSpec => []AnAdministratorRemains
<1>1. AccountsInit => AccountsInv /\ RemainInv
  BY DEF AccountsInit, AccountsInv, RemainInv, RowsTyped, RequestsTyped, AnAdministratorRemains,
         OneRemoval, AnotherRemains, LaterAccounts, LaterInvites, Exists, Pending, NoInvite
<1>2. AccountsInv /\ RemainInv /\ [AccountsNext]_accountsVars => AccountsInv' /\ RemainInv'
  BY AccountsInductive, RemainStep
<1>3. RemainInv => AnAdministratorRemains
  BY DEF RemainInv
<1>. QED BY <1>1, <1>2, <1>3, PTL DEF AccountsSpec

-----------------------------------------------------------------------------
(* The account's methods: a secret that was made, codes that go with a row  *)
(* that says so, keys the owner has.                                        *)
RowHolds(row) ==
  /\ row.secret \in 0 .. made.secrets /\ (row.confirmed => row.secret # 0)
MethodsTyped ==
  /\ made.secrets \in 0 .. MaxSecrets /\ RowHolds(two_step)
  /\ codes \subseteq Code /\ (codes # {} => two_step.generated)
  /\ DOMAIN sign_counts \subseteq Passkeys
(* The lock is a browser's that checks an answer. *)
LockIsSomebodys ==
  holder # Nobody => holder \in Browsers /\ request[holder].at = "guarded"
MethodsInv == MethodsTyped /\ LockIsSomebodys

LEMMA LockStays ==
  ASSUME AttemptsInv, LockIsSomebodys, UNCHANGED holder,
         \/ UNCHANGED request
         \/ \E b \in Browsers : /\ request[b].at # "guarded"
                              /\ \E r : request' = [request EXCEPT ![b] = r]
  PROVE  LockIsSomebodys'
BY DEF LockIsSomebodys, AttemptsInv, AccountTyped

LEMMA LockGoes == ASSUME NEW b, Release(b) PROVE LockIsSomebodys'
BY DEF Release, LockIsSomebodys

(* Answers change no secret, and take at most codes. *)
LEMMA MethodsStay ==
  ASSUME MethodsTyped, UNCHANGED made, codes' \subseteq codes,
         DOMAIN sign_counts' = DOMAIN sign_counts,
         two_step'.secret = two_step.secret, two_step'.confirmed = two_step.confirmed,
         two_step'.generated = two_step.generated
  PROVE  MethodsTyped'
BY DEF MethodsTyped, RowHolds

LEMMA MethodAddedTyped ==
  ASSUME AttemptsInv, MethodsTyped, NEW row \in UserRow, NEW keys, RowHolds(row),
         row.generated = two_step.generated, DOMAIN keys \subseteq Passkeys,
         MethodAdded(row, keys, made.secrets)
  PROVE  MethodsTyped'
<1>1. /\ two_step' = [row EXCEPT !.generated = TRUE] /\ sign_counts' = keys
      /\ codes' = IF row.generated THEN codes ELSE NewCodes
      /\ made' = [secrets |-> made.secrets,
                  sets |-> IF row.generated THEN made.sets ELSE made.sets + 1]
  BY DEF MethodAdded
<1>2. /\ two_step'.generated = TRUE /\ two_step'.secret = row.secret
      /\ two_step'.confirmed = row.confirmed /\ made'.secrets = made.secrets
  BY <1>1 DEF UserRow
<1>3. codes' \subseteq Code
  BY <1>1 DEF MethodsTyped, NewCodes
<1>. QED BY <1>1, <1>2, <1>3 DEF MethodsTyped, RowHolds

LEMMA MethodRemovedTyped ==
  ASSUME AttemptsInv, MethodsTyped, NEW row \in UserRow, NEW keys, RowHolds(row),
         row.generated = two_step.generated, DOMAIN keys \subseteq Passkeys,
         MethodRemoved(row, keys), UNCHANGED made
  PROVE  MethodsTyped'
<1>. DEFINE on == row.confirmed \/ DOMAIN keys # {}
<1>1. /\ two_step' = [row EXCEPT !.generated = @ /\ on] /\ sign_counts' = keys
      /\ codes' = IF on THEN codes ELSE {}
  BY DEF MethodRemoved
<1>2. /\ two_step'.generated = (row.generated /\ on) /\ two_step'.secret = row.secret
      /\ two_step'.confirmed = row.confirmed
  BY <1>1 DEF UserRow
<1>3. codes' \subseteq Code /\ (codes' # {} => two_step'.generated)
  BY <1>1, <1>2 DEF MethodsTyped
<1>. QED BY <1>1, <1>2, <1>3 DEF MethodsTyped, RowHolds

LEMMA MethodsStep == AttemptsInv /\ MethodsInv /\ [SignInNext]_signInVars => MethodsInv'
<1>. SUFFICES ASSUME AttemptsInv, MethodsInv, [SignInNext]_signInVars
              PROVE  MethodsInv'
  OBVIOUS
<1>. USE DEF proofs, rest
<1>0. /\ MethodsTyped /\ LockIsSomebodys /\ AccountTyped /\ two_step \in UserRow
      /\ made.secrets \in Nat
  BY DEF AttemptsInv, AccountTyped, MethodsInv
<1>1. UNCHANGED <<two_step, made, codes, sign_counts>> => MethodsTyped'
  BY <1>0 DEF MethodsTyped, RowHolds
<1>2. CASE \/ SetRequired \/ Tick \/ UNCHANGED signInVars
           \/ \E k \in TicketIds :
                \/ Login(k) \/ PasskeyRegistrationOptions(k) \/ SetupPasskeyOptions(k)
  BY <1>0, <1>1, <1>2, LockStays DEF SetRequired, Tick, signInVars, Login,
        PasskeyRegistrationOptions, SetupPasskeyOptions, MethodsInv
<1>3. ASSUME MethodsTyped', UNCHANGED <<request, holder>>
      PROVE  MethodsInv'
  BY <1>0, <1>3, LockStays DEF MethodsInv
<1>4. ASSUME Writes, NEW row \in UserRow, NEW keys, RowHolds(row),
             row.generated = two_step.generated, DOMAIN keys \subseteq Passkeys,
             MethodAdded(row, keys, made.secrets) \/ (MethodRemoved(row, keys) /\ UNCHANGED made)
      PROVE  MethodsInv'
  BY <1>0, <1>3, <1>4, MethodAddedTyped, MethodRemovedTyped DEF Writes
<1>5. CASE ConfirmTotp
  <2>1. PICK s \in Window(now) : MethodAdded(Confirmed(s), sign_counts, made.secrets)
    BY <1>5 DEF ConfirmTotp
  <2>2. Confirmed(s) \in UserRow /\ RowHolds(Confirmed(s))
        /\ Confirmed(s).generated = two_step.generated
    <3>1. s \in Nat
      BY SignInAssumption DEF Window
    <3>2. two_step.secret # 0 /\ two_step.secret \in 0 .. made.secrets
      BY <1>0, <1>5 DEF ConfirmTotp, MethodsTyped, RowHolds
    <3>. QED BY <1>0, <3>1, <3>2 DEF Confirmed, UserRow, RowHolds
  <2>3. DOMAIN sign_counts \subseteq Passkeys /\ Writes
    BY <1>0, <1>5 DEF MethodsTyped, ConfirmTotp
  <2>. QED BY <1>4, <2>1, <2>2, <2>3
<1>6. CASE AddPasskey
  <2>1. Writes /\ DOMAIN sign_counts \subseteq Passkeys /\ RowHolds(two_step)
    BY <1>0, <1>6 DEF AddPasskey, MethodsTyped
  <2>2. PICK keys : MethodAdded(two_step, keys, made.secrets) /\ DOMAIN keys \subseteq Passkeys
    BY <1>6, <2>1 DEF AddPasskey
  <2>. QED BY <1>0, <1>4, <2>1, <2>2
<1>7. CASE BeginTotp
  <2>1. /\ made.secrets < MaxSecrets /\ ~two_step.confirmed
        /\ two_step' = [two_step EXCEPT !.secret = made.secrets + 1, !.last_step = 0,
                                        !.spent = FALSE]
        /\ made' = [made EXCEPT !.secrets = @ + 1]
        /\ UNCHANGED <<sign_counts, codes, request, holder>>
    BY <1>7 DEF BeginTotp, Writes, HasTotp
  <2>2. /\ made'.secrets = made.secrets + 1 /\ two_step'.secret = made.secrets + 1
        /\ two_step'.confirmed = two_step.confirmed
        /\ two_step'.generated = two_step.generated
    BY <1>0, <2>1 DEF UserRow, AccountTyped
  <2>3. MethodsTyped'
    BY <1>0, <2>1, <2>2, SignInAssumption DEF MethodsTyped, RowHolds
  <2>. QED BY <1>3, <2>1, <2>3
<1>8. CASE RemoveTotp
  <2>. DEFINE row == [two_step EXCEPT !.secret = 0, !.confirmed = FALSE,
                                      !.last_step = 0, !.spent = FALSE]
  <2>1. row \in UserRow /\ RowHolds(row) /\ row.generated = two_step.generated
    <3>1. /\ row \in UserRow /\ row.secret = 0 /\ row.confirmed = FALSE
          /\ row.generated = two_step.generated
      BY <1>0 DEF UserRow
    <3>. HIDE DEF row
    <3>. QED BY <1>0, <3>1 DEF RowHolds
  <2>2. /\ MethodRemoved(row, sign_counts) /\ UNCHANGED made /\ Writes
        /\ DOMAIN sign_counts \subseteq Passkeys
    BY <1>0, <1>8 DEF RemoveTotp, MethodsTyped
  <2>. HIDE DEF row
  <2>. QED BY <1>4, <2>1, <2>2
<1>9. CASE RemovePasskey
  <2>1. DOMAIN sign_counts \subseteq Passkeys /\ RowHolds(two_step) /\ Writes /\ UNCHANGED made
    BY <1>0, <1>9 DEF RemovePasskey, MethodsTyped
  <2>2. PICK keys : MethodRemoved(two_step, keys) /\ DOMAIN keys \subseteq Passkeys
    BY <1>9, <2>1 DEF RemovePasskey
  <2>. QED BY <1>0, <1>4, <2>1, <2>2
<1>10. CASE RegenerateCodes
  <2>1. /\ codes' = NewCodes /\ made' = [made EXCEPT !.sets = @ + 1]
        /\ two_step' = [two_step EXCEPT !.generated = TRUE]
        /\ UNCHANGED <<sign_counts, request, holder>>
    BY <1>10 DEF RegenerateCodes, Writes
  <2>2. /\ made'.secrets = made.secrets /\ two_step'.secret = two_step.secret
        /\ two_step'.confirmed = two_step.confirmed /\ two_step'.generated = TRUE
    BY <1>0, <2>1 DEF UserRow, AccountTyped
  <2>3. MethodsTyped'
    BY <1>0, <2>1, <2>2 DEF MethodsTyped, RowHolds, NewCodes
  <2>. QED BY <1>3, <2>1, <2>3
<1>11. CASE Reset
  <2>1. MethodsTyped' /\ UNCHANGED <<request, holder>>
    BY <1>0, <1>11 DEF Reset, Writes, NoRow, MethodsTyped, RowHolds
  <2>. QED BY <1>3, <2>1
<1>12. ASSUME UNCHANGED <<made, sign_counts, codes>>,
              two_step' = two_step
                \/ two_step' = [two_step EXCEPT !.locked_until = 0, !.failed = 0]
       PROVE  MethodsTyped'
  BY <1>0, <1>12, MethodsStay DEF UserRow
<1>13. ASSUME NEW k \in TicketIds, PasskeyOptions(k)
       PROVE  MethodsInv'
  BY <1>3, <1>12, <1>13 DEF PasskeyOptions
<1>14. ASSUME NEW b \in Browsers, NEW k \in TicketIds, Verify(b, k) \/ FinishSetup(b, k)
       PROVE  MethodsInv'
  <2>1. /\ UNCHANGED <<two_step, made, codes, sign_counts, holder>>
        /\ request[b].at = "idle" /\ \E r : request' = [request EXCEPT ![b] = r]
    BY <1>14 DEF Verify, FinishSetup, Ask
  <2>. QED BY <1>0, <1>1, <2>1, LockStays DEF MethodsInv
<1>15. ASSUME NEW b \in Browsers, Guard(b)
       PROVE  MethodsInv'
  <2>1. /\ UNCHANGED <<made, sign_counts, codes>> /\ request[b].at = "found"
        /\ \/ /\ UNCHANGED <<two_step, holder>> /\ request' = [request EXCEPT ![b] = AtRest]
           \/ /\ two_step' = Guarded(b) /\ holder' = b
              /\ request' = [request EXCEPT ![b] = [request[b] EXCEPT !.at = "guarded"]]
    BY <1>15 DEF Guard, EnterWith, Ask
  <2>2. MethodsTyped'
    BY <1>12, <2>1 DEF Guarded
  <2>3. request[b] \in TriesAsked
    BY <1>0, <2>1 DEF AccountTyped, AtRest, Finishing
  <2>4. [request[b] EXCEPT !.at = "guarded"].at = "guarded"
    BY <2>3 DEF TriesAsked
  <2>5. LockIsSomebodys'
    BY <1>0, <2>1, <2>4, LockStays DEF LockIsSomebodys, AccountTyped
  <2>. QED BY <2>2, <2>5 DEF MethodsInv
<1>16. ASSUME NEW b \in Browsers, Refuse(b)
       PROVE  MethodsInv'
  BY <1>1, <1>16, LockGoes DEF Refuse, MethodsInv
<1>17. ASSUME NEW b \in Browsers, Accept(b)
       PROVE  MethodsInv'
  <2>1. Release(b) /\ UNCHANGED made
    BY <1>17 DEF Accept
  <2>2. CASE Issued(request[b].ticket)
    <3>1. Spend(b)
      BY <1>17, <2>2 DEF Accept
    <3>2. /\ two_step'.secret = two_step.secret /\ two_step'.confirmed = two_step.confirmed
          /\ two_step'.generated = two_step.generated
      BY <1>0, <3>1 DEF Spend, UserRow
    <3>3. codes' \subseteq codes /\ DOMAIN sign_counts' = DOMAIN sign_counts
      BY <3>1 DEF Spend
    <3>. QED BY <1>0, <2>1, <3>2, <3>3, MethodsStay, LockGoes DEF MethodsInv
  <2>3. CASE ~Issued(request[b].ticket)
    BY <1>1, <1>17, <2>1, <2>3, LockGoes DEF Accept, MethodsInv
  <2>. QED BY <2>2, <2>3
<1>18. ASSUME NEW b \in Browsers, Reject(b)
       PROVE  MethodsInv'
  <2>1. /\ Release(b) /\ UNCHANGED <<made, sign_counts, codes>>
        /\ two_step'.secret = two_step.secret /\ two_step'.confirmed = two_step.confirmed
        /\ two_step'.generated = two_step.generated
    BY <1>0, <1>18 DEF Reject, UserRow
  <2>. QED BY <1>0, <2>1, MethodsStay, LockGoes DEF MethodsInv
<1>19. ASSUME NEW b \in Browsers, ConsumeSetup(b)
       PROVE  MethodsInv'
  <2>1. /\ UNCHANGED <<made, sign_counts, codes, holder>> /\ request[b].at = "finishing"
        /\ request' = [request EXCEPT ![b] = AtRest]
        /\ two_step' = two_step
             \/ two_step' = [two_step EXCEPT !.locked_until = 0, !.failed = 0]
    BY <1>19 DEF ConsumeSetup, Ask
  <2>2. LockIsSomebodys'
    BY <1>0, <2>1, LockStays
  <2>. QED BY <1>12, <2>1, <2>2 DEF MethodsInv
<1>. QED
  BY <1>2, <1>5, <1>6, <1>7, <1>8, <1>9, <1>10, <1>11, <1>13, <1>14, <1>15, <1>16,
     <1>17, <1>18, <1>19
     DEF SignInNext, SettingsTotp, SetupTotp, SettingsPasskey, SetupPasskey

(* For any number of browsers, passkeys and limits: a confirmed method has  *)
(* a secret, codes are there with the row that says so and go with it, and  *)
(* the lock is held by exactly the browser whose answer is being checked.   *)
THEOREM SignInTypeCorrect == SignInSpec => []SignInTypeOK
<1>1. SignInInit => MethodsInv
  BY SignInAssumption DEF SignInInit, MethodsInv, MethodsTyped, RowHolds, LockIsSomebodys, NoRow
<1>2. AttemptsInv /\ MethodsInv => SignInTypeOK
  <2>. SUFFICES ASSUME AttemptsInv, MethodsInv PROVE SignInTypeOK
    OBVIOUS
  <2>1. two_step.failed \in 0 .. MaxFailures /\ two_step.secret \in 0 .. MaxSecrets
    BY SignInAssumption DEF AttemptsInv, AccountTyped, UserRow, CountIsKept, MethodsInv,
       MethodsTyped, RowHolds
  <2>2. \A b \in Browsers : (request[b].at = "guarded") = (holder = b)
    BY SignInAssumption DEF AttemptsInv, LockIsHeld, MethodsInv, LockIsSomebodys
  <2>. QED BY <2>1, <2>2 DEF SignInTypeOK, MethodsInv, MethodsTyped, RowHolds, LockIsSomebodys
<1>. QED BY <1>1, <1>2, AttemptsInvariant, MethodsStep, PTL DEF SignInSpec

-----------------------------------------------------------------------------
(* The rows of the admin role are rows some request added, and the other    *)
(* roles people hold are roles that exist.                                  *)
WellGiven(row) ==
  /\ row.admin_rows \subseteq 1 .. begun
  /\ \A s \in Scopes : row.roles[s] \subseteq DOMAIN grants
RowsGiven == \A u \in Users : Exists(u) => WellGiven(users[u])
RequestsNumbered ==
  \A a \in Pending : requesting[a].kind \in {"update", "create"} => requesting[a].id \in 1 .. begun
Invitation == [status : {"pending", "accepted", "revoked"}, expired : BOOLEAN, admin : BOOLEAN]
InvitesTyped == \A u \in Users : invites[u] \in {NoInvite} \cup Invitation
GivenInv == RowsGiven /\ RequestsNumbered /\ InvitesTyped

LEMMA BeginGiven ==
  ASSUME AccountsInv, RemainInv, GivenInv, NEW a \in Users, NEW p, Begin(a, p),
         p.kind \in {"update", "create"} => p.id = begun + 1
  PROVE  GivenInv'
<1>1. /\ requesting'[a] = p /\ \A b \in Users \ {a} : requesting'[b] = requesting[b]
      /\ UNCHANGED <<users, grants, invites>>
  BY DEF Begin, AccountsInv
<1>2. begun \in Nat /\ begun' = begun + 1
  BY DEF Begin, RemainInv, RequestsTyped
<1>3. \A n : n \in 1 .. begun => n \in 1 .. begun'
  BY <1>2
<1>4. RowsGiven'
  BY <1>1, <1>3 DEF GivenInv, RowsGiven, WellGiven, Exists
<1>5. ASSUME NEW b \in Pending', requesting'[b].kind \in {"update", "create"}
      PROVE  requesting'[b].id \in 1 .. begun'
  <2>1. CASE b = a
    BY <1>1, <1>2, <1>5, <2>1
  <2>2. CASE b # a
    BY <1>1, <1>3, <1>5, <2>2 DEF Pending, GivenInv, RequestsNumbered
  <2>. QED BY <2>1, <2>2
<1>6. RequestsNumbered'
  BY <1>5 DEF RequestsNumbered
<1>. QED BY <1>1, <1>4, <1>6 DEF GivenInv, InvitesTyped

(* A request ends: the one account it changes is given what there is.       *)
LEMMA CommitGiven ==
  ASSUME AccountsInv, GivenInv, NEW a \in Users, NEW kind, Commits(a, kind), grants' = grants,
         \A u \in Users : users'[u] # users[u] /\ users'[u] # NoUser => WellGiven(users'[u]),
         InvitesTyped'
  PROVE  GivenInv'
<1>1. /\ requesting'[a] = NoRequest /\ begun' = begun
      /\ \A b \in Users \ {a} : requesting'[b] = requesting[b]
  BY DEF Commits, AccountsInv
<1>2. \A b \in Pending' : b \in Pending /\ requesting'[b] = requesting[b]
  BY <1>1 DEF Pending
<1>3. RequestsNumbered'
  BY <1>1, <1>2 DEF GivenInv, RequestsNumbered
<1>4. \A u \in Users : users'[u] # NoUser => WellGiven(users'[u])
  BY DEF GivenInv, RowsGiven, Exists
<1>5. RowsGiven'
  BY <1>1, <1>4 DEF RowsGiven, WellGiven, Exists
<1>. QED BY <1>3, <1>5 DEF GivenInv

LEMMA UpdateGiven ==
  ASSUME AccountsInv, RemainInv, GivenInv, NEW a \in Users, CommitUpdate(a)
  PROVE  GivenInv'
<1>. DEFINE p == requesting[a]
            row == users[p.target]
            on == IF p.active = p.seen.is_active THEN row.is_active ELSE p.active
            active == [row EXCEPT !.is_active = on]
            new == IF p.touch THEN SetAdministrator(active, p.seen, p.admin, p.id) ELSE active
<1>1. Commits(a, "update") /\ p.kind = "update" /\ a \in Pending /\ p.target \in Users
  BY DEF CommitUpdate, Commits, Pending, NoRequest, Target, AccountsInv
<1>2. p.id \in 1 .. begun
  BY <1>1 DEF GivenInv, RequestsNumbered
<1>3. CASE ~Exists(p.target)
  BY <1>1, <1>3, CommitGiven DEF CommitUpdate, Unchanged, GivenInv, InvitesTyped
<1>4. CASE Exists(p.target)
  <2>1. users' = [users EXCEPT ![p.target] = new] /\ UNCHANGED <<grants, invites>>
    BY <1>4 DEF CommitUpdate
  <2>2. row \in AccountRows /\ WellGiven(row)
    BY <1>1, <1>4 DEF RemainInv, RowsTyped, GivenInv, RowsGiven
  <2>3. active.admin_rows = row.admin_rows /\ active.roles = row.roles
        /\ active = [c \in Columns |-> active[c]]
    BY <2>2 DEF AccountRows, Columns
  <2>4. WellGiven(new)
    <3>. HIDE DEF active
    <3>1. CASE ~p.touch
      BY <2>2, <2>3, <3>1 DEF WellGiven
    <3>2. CASE p.touch
      <4>. DEFINE r == SetAdministrator(active, p.seen, p.admin, p.id)
      <4>1. r.roles = active.roles /\ r.admin_rows \subseteq active.admin_rows \cup {p.id}
        BY <2>3 DEF SetAdministrator, Columns
      <4>2. new = r
        BY <3>2
      <4>. HIDE DEF r, new
      <4>. QED BY <1>2, <2>2, <2>3, <4>1, <4>2 DEF WellGiven
    <3>. QED BY <3>1, <3>2
  <2>. HIDE DEF new
  <2>5. \A u \in Users : users'[u] # users[u] => users'[u] = new
    BY <1>1, <2>1 DEF AccountsInv
  <2>6. InvitesTyped'
    BY <2>1 DEF GivenInv, InvitesTyped
  <2>. QED BY <1>1, <2>1, <2>4, <2>5, <2>6, CommitGiven
<1>. QED BY <1>3, <1>4

LEMMA CreateGiven ==
  ASSUME AccountsInv, RemainInv, GivenInv, NEW a \in Users, CommitCreate(a)
  PROVE  GivenInv'
<1>. DEFINE p == requesting[a]
            u == p.target
            new == IF p.admin THEN SetAdministrator(NewUser, NewUser, TRUE, p.id) ELSE NewUser
<1>1. Commits(a, "create") /\ p.kind = "create" /\ a \in Pending /\ u \in Users
  BY DEF CommitCreate, Commits, Pending, NoRequest, Target, AccountsInv
<1>2. p.id \in 1 .. begun
  BY <1>1 DEF GivenInv, RequestsNumbered
<1>3. (users' = users \/ users' = [users EXCEPT ![u] = new]) /\ grants' = grants
  BY DEF CommitCreate, Unchanged
<1>4. WellGiven(new)
  BY <1>2 DEF NewUser, SetAdministrator, WellGiven
<1>5. InvitesTyped'
  <2>1. \/ invites' = invites
        \/ /\ invites[u] # NoInvite
           /\ invites' = [invites EXCEPT ![u] = [@ EXCEPT !.status = "accepted"]]
    BY DEF CommitCreate, Unchanged
  <2>2. /\ invites = [v \in Users |-> invites[v]]
        /\ \A v \in Users : invites[v] \in {NoInvite} \cup Invitation
    BY DEF RemainInv, RequestsTyped, GivenInv, InvitesTyped
  <2>3. CASE invites' = invites
    BY <2>2, <2>3 DEF InvitesTyped
  <2>4. CASE /\ invites[u] # NoInvite
             /\ invites' = [invites EXCEPT ![u] = [@ EXCEPT !.status = "accepted"]]
    <3>1. invites'[u] = [invites[u] EXCEPT !.status = "accepted"] /\ invites[u] \in Invitation
      BY <1>1, <2>2, <2>4
    <3>2. invites'[u] \in Invitation
      BY <3>1 DEF Invitation
    <3>. QED BY <2>2, <2>4, <3>2 DEF InvitesTyped
  <2>. QED BY <2>1, <2>3, <2>4
<1>. HIDE DEF new
<1>6. \A v \in Users : users'[v] # users[v] => users'[v] = new
  BY <1>1, <1>3 DEF AccountsInv
<1>. QED BY <1>1, <1>3, <1>4, <1>5, <1>6, CommitGiven

LEMMA RolesGiven ==
  ASSUME AccountsInv, RemainInv, GivenInv, NEW a \in Users,
         CommitRoles(a) \/ CommitUnrole(a)
  PROVE  GivenInv'
<1>. DEFINE p == requesting[a]
            t == p.target
<1>1. p.kind \in {"roles", "unrole"} /\ Commits(a, p.kind) /\ t \in Users
      /\ UNCHANGED <<grants, invites>>
  <2>1. p.kind \in {"roles", "unrole"} /\ Commits(a, p.kind)
    BY DEF CommitRoles, CommitUnrole, Commits
  <2>2. t \in Users
    BY <2>1 DEF Pending, NoRequest, Target, AccountsInv
  <2>3. CommitRoles(a) => UNCHANGED <<grants, invites>>
    BY DEF CommitRoles, Unchanged
  <2>4. CommitUnrole(a) => UNCHANGED <<grants, invites>>
    BY DEF CommitUnrole
  <2>. QED BY <2>1, <2>2, <2>3, <2>4
<1>2. InvitesTyped'
  BY <1>1 DEF GivenInv, InvitesTyped
<1>3. CASE users' = users
  BY <1>1, <1>2, <1>3, CommitGiven
<1>4. ASSUME NEW r \in [Scopes -> SUBSET DOMAIN grants], Exists(t),
             users' = [users EXCEPT ![t] = [@ EXCEPT !.roles = r]]
      PROVE  GivenInv'
  <2>. DEFINE new == [users[t] EXCEPT !.roles = r]
  <2>1. users[t] \in AccountRows /\ WellGiven(users[t])
    BY <1>1, <1>4 DEF RemainInv, RowsTyped, GivenInv, RowsGiven
  <2>2. new.admin_rows = users[t].admin_rows /\ new.roles = r
    BY <2>1 DEF AccountRows
  <2>. HIDE DEF new
  <2>3. WellGiven(new)
    BY <1>4, <2>1, <2>2 DEF WellGiven
  <2>4. \A u \in Users : users'[u] # users[u] => users'[u] = new
    BY <1>1, <1>4 DEF AccountsInv, new
  <2>. QED BY <1>1, <1>2, <2>3, <2>4, CommitGiven
<1>5. Exists(t) => users[t].roles \in [Scopes -> SUBSET DOMAIN grants]
  <2>1. Exists(t) => users[t] \in AccountRows /\ WellGiven(users[t])
    BY <1>1 DEF RemainInv, RowsTyped, GivenInv, RowsGiven
  <2>2. Exists(t) => users[t].roles \in [Scopes -> SUBSET Roles]
    BY <2>1 DEF AccountRows
  <2>. QED BY <2>1, <2>2 DEF WellGiven
<1>6. CASE CommitRoles(a) /\ users' # users
  <2>. DEFINE in(s) == s \in DOMAIN p.prior /\ p.prior[s] # {}
              r == [s \in Scopes |->
                      IF s \notin DOMAIN p.new THEN users[t].roles[s]
                      ELSE (IF in(s) THEN users[t].roles[s] \ p.prior[s] ELSE users[t].roles[s])
                             \cup {p.new[s]}]
  <2>1. Exists(t) /\ \A s \in DOMAIN p.new : p.new[s] \in DOMAIN grants
    BY <1>6 DEF CommitRoles, Unchanged
  <2>2. users' = [users EXCEPT ![t] = [@ EXCEPT !.roles = r]]
    BY <1>6, <2>1 DEF CommitRoles, Unchanged
  <2>3. r \in [Scopes -> SUBSET DOMAIN grants]
    BY <1>5, <2>1
  <2>. HIDE DEF r
  <2>. QED BY <1>4, <2>1, <2>2, <2>3
<1>7. CASE CommitUnrole(a) /\ Exists(t)
  <2>. DEFINE r == [users[t].roles EXCEPT ![p.scope] = @ \ {p.role}]
  <2>1. users' = [users EXCEPT ![t] = [@ EXCEPT !.roles = r]]
    BY <1>1, <1>7 DEF CommitUnrole, AccountsInv
  <2>2. r \in [Scopes -> SUBSET DOMAIN grants]
    BY <1>5, <1>7
  <2>. HIDE DEF r
  <2>. QED BY <1>4, <1>7, <2>1, <2>2
<1>8. CommitUnrole(a) /\ ~Exists(t) => users' = users
  BY DEF CommitUnrole
<1>. QED BY <1>3, <1>6, <1>7, <1>8

LEMMA DeleteGiven ==
  ASSUME AccountsInv, GivenInv, NEW a \in Users, CommitDelete(a)
  PROVE  GivenInv'
<1>1. Commits(a, "delete") /\ Target(a) \in Users /\ UNCHANGED <<grants, invites>>
  BY DEF CommitDelete, Commits, Pending, NoRequest, AccountsInv
<1>2. \A u \in Users : users'[u] # users[u] => users'[u] = NoUser
  BY <1>1 DEF CommitDelete, AccountsInv
<1>3. InvitesTyped'
  BY <1>1 DEF GivenInv, InvitesTyped
<1>. QED BY <1>1, <1>2, <1>3, CommitGiven

(* A role is created, changed, or deleted while nobody holds it; an         *)
(* invitation is made, waits on, or is no more.                             *)
LEMMA SettingsGiven ==
  ASSUME AccountsInv, RemainInv, GivenInv, NEW a \in Users, NEW u \in Users,
         \/ CleanupInvites(a) \/ ExpireInvite(a) \/ CreateInvite(a, u) \/ ResendInvite(a, u)
         \/ RevokeInvite(a, u)
         \/ \E r \in Roles : CreateRole(a, r) \/ UpdateRole(a, r) \/ DeleteRole(a, r)
  PROVE  GivenInv'
<1>1. UNCHANGED <<users, requesting, begun>>
  BY DEF CleanupInvites, ExpireInvite, CreateInvite, ResendInvite, RevokeInvite, SetInvite,
         CreateRole, UpdateRole, DeleteRole, rolesRest
<1>2. RequestsNumbered'
  BY <1>1 DEF GivenInv, RequestsNumbered, Pending
<1>3. /\ invites = [v \in Users |-> invites[v]]
      /\ \A v \in Users : invites[v] \in {NoInvite} \cup Invitation
  BY DEF RemainInv, RequestsTyped, GivenInv, InvitesTyped
<1>4. ASSUME \E r \in Roles : CreateRole(a, r) \/ UpdateRole(a, r) \/ DeleteRole(a, r)
      PROVE  RowsGiven' /\ InvitesTyped'
  <2>1. PICK r \in Roles : CreateRole(a, r) \/ UpdateRole(a, r) \/ DeleteRole(a, r)
    BY <1>4
  <2>2. invites' = invites
    BY <2>1 DEF CreateRole, UpdateRole, DeleteRole
  <2>3. CASE CreateRole(a, r) \/ UpdateRole(a, r)
    <3>1. DOMAIN grants \subseteq DOMAIN grants'
      BY <2>3 DEF CreateRole, UpdateRole
    <3>2. RowsGiven'
      BY <1>1, <3>1 DEF GivenInv, RowsGiven, WellGiven, Exists
    <3>. QED BY <1>3, <2>2, <3>2 DEF InvitesTyped
  <2>4. CASE DeleteRole(a, r)
    <3>1. DOMAIN grants' = DOMAIN grants \ {r}
          /\ \A v \in Users : Exists(v) => \A s \in Scopes : r \notin users[v].roles[s]
      BY <2>4 DEF DeleteRole
    <3>2. RowsGiven'
      BY <1>1, <3>1 DEF GivenInv, RowsGiven, WellGiven, Exists
    <3>. QED BY <1>3, <2>2, <3>2 DEF InvitesTyped
  <2>. QED BY <2>1, <2>3, <2>4
<1>5. grants' = grants => RowsGiven'
  BY <1>1 DEF GivenInv, RowsGiven, WellGiven, Exists
<1>6. ASSUME NEW v \in Users, NEW i \in Invitation, SetInvite(v, i)
      PROVE  GivenInv'
  <2>1. grants' = grants /\ invites' = [invites EXCEPT ![v] = i]
    BY <1>6 DEF SetInvite, rolesRest
  <2>2. \A w \in Users : invites'[w] = IF w = v THEN i ELSE invites[w]
    BY <1>3, <2>1
  <2>3. InvitesTyped'
    BY <1>3, <1>6, <2>2 DEF InvitesTyped
  <2>. QED BY <1>2, <1>5, <2>1, <2>3 DEF GivenInv
<1>7. CASE CreateInvite(a, u)
  BY <1>6, <1>7 DEF CreateInvite, Invitation
<1>8. \A v \in Users : invites[v].status = "pending" => invites[v] \in Invitation
  BY <1>3 DEF NoInvite
<1>9. CASE ExpireInvite(a)
  <2>. DEFINE i == [invites[a] EXCEPT !.expired = TRUE]
  <2>1. SetInvite(a, i) /\ invites[a] \in Invitation
    BY <1>8, <1>9 DEF ExpireInvite
  <2>2. i \in Invitation
    BY <2>1 DEF Invitation
  <2>. QED BY <1>6, <2>1, <2>2
<1>10. CASE ResendInvite(a, u)
  <2>. DEFINE i == [invites[u] EXCEPT !.expired = FALSE]
  <2>1. SetInvite(u, i) /\ invites[u] \in Invitation
    BY <1>8, <1>10 DEF ResendInvite
  <2>2. i \in Invitation
    BY <2>1 DEF Invitation
  <2>. QED BY <1>6, <2>1, <2>2
<1>11. CASE RevokeInvite(a, u)
  <2>. DEFINE i == [invites[u] EXCEPT !.status = "revoked"]
  <2>1. SetInvite(u, i) /\ invites[u] \in Invitation
    BY <1>8, <1>11 DEF RevokeInvite
  <2>2. i \in Invitation
    BY <2>1 DEF Invitation
  <2>. QED BY <1>6, <2>1, <2>2
<1>12. CASE CleanupInvites(a)
  <2>1. grants' = grants /\ \A v \in Users : invites'[v] = invites[v] \/ invites'[v] = NoInvite
    BY <1>12 DEF CleanupInvites, rolesRest
  <2>2. InvitesTyped'
    BY <1>3, <2>1 DEF InvitesTyped
  <2>. QED BY <1>2, <1>5, <2>1, <2>2 DEF GivenInv
<1>. QED BY <1>2, <1>4, <1>7, <1>9, <1>10, <1>11, <1>12 DEF GivenInv

LEMMA RequestsGiven ==
  ASSUME AccountsInv, RemainInv, GivenInv, NEW a \in Users, NEW u \in Users,
         \/ Signup(a) \/ AcceptInvite(a) \/ Update(a, u) \/ Delete(a, u) \/ Create(a, u)
         \/ AssignRoles(a, u) \/ RemoveRole(a, u)
  PROVE  GivenInv'
<1>1. CASE Update(a, u)
  BY <1>1, BeginGiven DEF Update
<1>2. CASE Delete(a, u) \/ AssignRoles(a, u) \/ RemoveRole(a, u)
  BY <1>2, BeginGiven DEF Delete, AssignRoles, RemoveRole
<1>3. CASE Signup(a) \/ AcceptInvite(a) \/ Create(a, u)
  BY <1>3, BeginGiven DEF Signup, AcceptInvite, Create, NewAccount
<1>. QED BY <1>1, <1>2, <1>3

LEMMA GivenStep ==
  ASSUME AccountsInv, RemainInv, GivenInv, [AccountsNext]_accountsVars
  PROVE  GivenInv'
<1>1. CASE UNCHANGED accountsVars
  BY <1>1 DEF accountsVars, GivenInv, RowsGiven, WellGiven, Exists, RequestsNumbered, Pending,
              InvitesTyped
<1>2. ASSUME NEW a \in Users,
             \/ CommitUpdate(a) \/ CommitDelete(a) \/ CommitCreate(a) \/ CommitRoles(a)
             \/ CommitUnrole(a)
      PROVE  GivenInv'
  BY <1>2, UpdateGiven, DeleteGiven, CreateGiven, RolesGiven
<1>3. ASSUME NEW a \in Users,
             \/ Signup(a) \/ AcceptInvite(a)
             \/ \E u \in Users : \/ Update(a, u) \/ Delete(a, u) \/ Create(a, u)
                                 \/ AssignRoles(a, u) \/ RemoveRole(a, u)
      PROVE  GivenInv'
  BY <1>3, RequestsGiven
<1>4. ASSUME NEW a \in Users,
             \/ CleanupInvites(a) \/ ExpireInvite(a)
             \/ \E u \in Users : CreateInvite(a, u) \/ ResendInvite(a, u) \/ RevokeInvite(a, u)
             \/ \E r \in Roles : CreateRole(a, r) \/ UpdateRole(a, r) \/ DeleteRole(a, r)
      PROVE  GivenInv'
  BY <1>4, SettingsGiven
<1>. QED BY <1>1, <1>2, <1>3, <1>4 DEF AccountsNext

(* For any people, roles and projects: every row of the admin role was      *)
(* added by a request of its own, and every role somebody holds exists, in  *)
(* spite of the requests that give one while another deletes it.            *)
THEOREM AccountsTypeCorrect == AccountsSpec => []AccountsTypeOK
<1>1. AccountsInit => AccountsInv /\ RemainInv /\ GivenInv
  BY DEF AccountsInit, AccountsInv, RemainInv, RowsTyped, RequestsTyped, AnAdministratorRemains,
         OneRemoval, AnotherRemains, LaterAccounts, LaterInvites, Exists, Pending, NoInvite,
         GivenInv, RowsGiven, RequestsNumbered, InvitesTyped
<1>2. AccountsInv /\ RemainInv /\ GivenInv /\ [AccountsNext]_accountsVars
        => AccountsInv' /\ RemainInv' /\ GivenInv'
  BY AccountsInductive, RemainStep, GivenStep
<1>3. AccountsInv /\ RemainInv /\ GivenInv => AccountsTypeOK
  <2>. SUFFICES ASSUME AccountsInv, RemainInv, GivenInv PROVE AccountsTypeOK
    OBVIOUS
  <2>1. ASSUME NEW u \in Users, Exists(u)
        PROVE  /\ users[u].is_admin \in BOOLEAN /\ users[u].is_active \in BOOLEAN
               /\ users[u].admin_rows \subseteq 1 .. begun
               /\ users[u].roles \in [Scopes -> SUBSET DOMAIN grants]
    <3>1. users[u] \in AccountRows /\ WellGiven(users[u])
      BY <2>1 DEF RemainInv, RowsTyped, GivenInv, RowsGiven
    <3>2. users[u].roles \in [Scopes -> SUBSET Roles]
          /\ users[u].is_admin \in BOOLEAN /\ users[u].is_active \in BOOLEAN
      BY <3>1 DEF AccountRows
    <3>. QED BY <3>1, <3>2 DEF WellGiven
  <2>2. \A u \in Users : invites[u].status \in {"none", "pending", "accepted", "revoked"}
    BY DEF GivenInv, InvitesTyped, Invitation, NoInvite
  <2>. QED BY <2>1, <2>2 DEF AccountsTypeOK, RemainInv, RequestsTyped
<1>. QED BY <1>1, <1>2, <1>3, PTL DEF AccountsSpec
=============================================================================
