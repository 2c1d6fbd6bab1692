------------------------------- MODULE SignIn -------------------------------
(* Signing in to one account with two-step verification: the ticket a right *)
(* password buys, the second step under the account's row lock, the forced  *)
(* setup, the Settings tab and an administrator's reset.                    *)
(*                                                                          *)
(* The routes of the second step are three steps, since they wait for the   *)
(* lock: the ticket is found, the lock is taken, the answer is checked.     *)
(* Every other route is one step.                                           *)
EXTENDS Naturals, FiniteSets

CONSTANTS
  Browsers,        (* each with one request at a time *)
  Passkeys,        (* credentials the account's owner has *)
  MaxFailures,     (* attempts.MAX_FAILURES *)
  CodesPerSet,     (* recovery_codes.COUNT *)
  Pause,           (* attempts.PAUSE, in 30-second steps *)
  Lifetime,        (* tickets.LIFETIME by purpose, in 30-second steps *)
  MaxNow, MaxTickets, MaxSecrets, MaxSets, MaxCount,      (* bounds of the model *)
  Nobody, NoTicket

ASSUME SignInAssumption ==
  /\ MaxFailures \in Nat \ {0} /\ CodesPerSet \in Nat \ {0} /\ Pause \in Nat \ {0}
  /\ MaxNow \in Nat /\ MaxTickets \in Nat /\ MaxSecrets \in Nat
  /\ MaxSets \in Nat /\ MaxCount \in Nat
  /\ Lifetime \in [{"verify", "setup", "register"} -> Nat \ {0}]
  /\ Nobody \notin Browsers /\ NoTicket # [purpose |-> "gone"]

VARIABLES
  now,             (* the 30-second step the clock is in *)
  required,        (* the require_two_step setting *)
  two_step,        (* the account's row of user_two_step *)
  sign_counts,     (* of the account's passkeys, by credential *)
  codes,           (* its unused recovery codes *)
  made,            (* secrets and sets of codes ever made *)
  tickets,
  request,         (* what each browser waits for *)
  holder,          (* who has the lock on the row *)
  sessions,        (* how many sessions each ticket has bought *)
  accepted,        (* the answers that have been accepted, with how often *)
  tries            (* answers found wrong since the last right one, pause or reset *)

signInVars == <<now, required, two_step, sign_counts, codes, made, tickets,
                request, holder, sessions, accepted, tries>>
proofs == <<sessions, accepted, tries>>

(* Tickets by the order in which they are issued: a token is never reused. *)
TicketIds == 1 .. MaxTickets

Totp == [kind : {"totp"}, secret : 1 .. MaxSecrets, step : 0 .. MaxNow + 1]
Code == [kind : {"code"}, set : 1 .. MaxSets, number : 1 .. CodesPerSet]
Signature == [kind : {"passkey"}, key : Passkeys, count : 0 .. MaxCount]
Wrong == [kind |-> "wrong"]

NoRow == [secret |-> 0, confirmed |-> FALSE, last_step |-> 0, spent |-> FALSE,
          generated |-> FALSE, failed |-> 0, locked_until |-> 0]
Ticket(purpose) ==
  [purpose |-> purpose, expires |-> now + Lifetime[purpose], challenge |-> FALSE]
AtRest == [at |-> "idle"]

SignInTypeOK ==
  /\ two_step.failed \in 0 .. MaxFailures
  /\ two_step.secret \in 0 .. MaxSecrets
  /\ two_step.confirmed => two_step.secret # 0
  /\ codes \subseteq Code /\ (codes # {} => two_step.generated)
  /\ DOMAIN sign_counts \subseteq Passkeys
  /\ holder \in Browsers \cup {Nobody}
  /\ \A b \in Browsers : (request[b].at = "guarded") = (holder = b)

SignInInit ==
  /\ now = 0 /\ required = FALSE /\ two_step = NoRow
  /\ sign_counts = [p \in {} |-> 0] /\ codes = {}
  /\ made = [secrets |-> 0, sets |-> 0]
  /\ tickets = [k \in TicketIds |-> NoTicket]
  /\ request = [b \in Browsers |-> AtRest] /\ holder = Nobody
  /\ sessions = [k \in TicketIds |-> 0]
  /\ accepted = [a \in {} |-> 0] /\ tries = 0

-----------------------------------------------------------------------------
(* status and tickets *)

HasTotp == two_step.confirmed
IsOn == HasTotp \/ DOMAIN sign_counts # {}

Unissued(k) == \A j \in TicketIds : tickets[j] = NoTicket <=> j >= k
Issued(k) == tickets[k] # NoTicket /\ tickets[k].purpose # "gone"
Live(k) == Issued(k) /\ tickets[k].expires > now
Found(k, purpose) == Live(k) /\ tickets[k].purpose = purpose
Gone(k) == [tickets EXCEPT ![k] = [purpose |-> "gone"]]

(* Issuing a ticket deletes the expired ones. *)
Issue(k, purpose, challenge) ==
  /\ Unissued(k)
  /\ tickets' = [j \in TicketIds |->
       IF j = k THEN [Ticket(purpose) EXCEPT !.challenge = challenge]
       ELSE IF Issued(j) /\ ~Live(j) THEN [purpose |-> "gone"] ELSE tickets[j]]

(* decide: the answer to a right password.  A session without a ticket      *)
(* changes nothing here.                                                    *)
Login(k) ==
  /\ IsOn \/ required
  /\ Issue(k, IF IsOn THEN "verify" ELSE "setup", FALSE)
  /\ UNCHANGED <<now, required, two_step, sign_counts, codes, made, request,
                 holder, proofs>>

-----------------------------------------------------------------------------
(* The second step *)

rest == <<now, required, made>>
Ask(b, r) == request' = [request EXCEPT ![b] = r]

(* The steps whose code is right at a time. *)
Window(at) == {s \in 0 .. MaxNow + 1 : s \in {at, at + 1} \/ s + 1 = at}

(* The codes an authenticator or a list can show by now, right or used up,  *)
(* and one that is none.                                                    *)
Answerable ==
  {a \in Totp : a.secret = two_step.secret /\ a.step \in Window(now)}
  \cup {a \in Code : a.set <= made.sets} \cup {Wrong}

(* _ticket: the ticket is looked up before the lock is asked for, and the   *)
(* time is read once.                                                       *)
Verify(b, k) ==
  /\ request[b].at = "idle" /\ Found(k, "verify")
  /\ \E a \in Answerable \cup Signature :
       /\ a.kind = "passkey" => tickets[k].challenge
       /\ Ask(b, [at |-> "found", ticket |-> k, answer |-> a, now |-> now])
  /\ UNCHANGED <<rest, two_step, sign_counts, codes, tickets, holder, proofs>>

(* What guard makes of the row: a pause that is over starts the count again. *)
Guarded(b) ==
  IF two_step.locked_until # 0
  THEN [two_step EXCEPT !.locked_until = 0, !.failed = 0] ELSE two_step

EnterWith(b, lock) ==
  /\ request[b].at = "found"
  /\ IF two_step.locked_until > request[b].now
     THEN Ask(b, AtRest) /\ UNCHANGED <<two_step, holder, tries>>
     ELSE /\ two_step' = Guarded(b)
          /\ tries' = IF two_step.locked_until # 0 THEN 0 ELSE tries
          /\ holder' = lock
          /\ Ask(b, [request[b] EXCEPT !.at = "guarded"])
  /\ UNCHANGED <<rest, sign_counts, codes, tickets, sessions, accepted>>

(* Mutant of Guard: the row is read without FOR UPDATE. *)
GuardUnlocked(b) == EnterWith(b, b)

(* attempts.guard: one answer of the account is checked at a time. *)
Guard(b) == holder = Nobody /\ EnterWith(b, b)

(* Mutant of TotpRight: the last step is not compared. *)
TotpAgain(a, at) ==
  HasTotp /\ a.secret = two_step.secret /\ a.step \in Window(at)

(* totp.check: a step at or before the last accepted one is refused. *)
TotpRight(a, at) ==
  /\ HasTotp /\ a.secret = two_step.secret /\ a.step \in Window(at)
  /\ two_step.spent => a.step > two_step.last_step

(* passkeys.verify: an authenticator that counts must have counted on. *)
SignatureRight(a) ==
  /\ a.key \in DOMAIN sign_counts
  /\ a.count > sign_counts[a.key] \/ (a.count = 0 /\ sign_counts[a.key] = 0)

Right(b) ==
  LET a == request[b].answer IN
  CASE a.kind = "totp" -> TotpRight(a, request[b].now)
    [] a.kind = "code" -> a \in codes
    [] a.kind = "passkey" -> SignatureRight(a)
    [] OTHER -> FALSE

Release(b) == holder' = Nobody /\ Ask(b, AtRest)

(* take_challenge: a signature without one is not looked at. *)
NoChallenge(b) ==
  LET k == request[b].ticket IN
  request[b].answer.kind = "passkey" /\ ~(Issued(k) /\ tickets[k].challenge)

Refuse(b) ==
  /\ request[b].at = "guarded" /\ NoChallenge(b)
  /\ Release(b)
  /\ UNCHANGED <<rest, two_step, sign_counts, codes, tickets, proofs>>

Spend(b) ==
  LET a == request[b].answer IN
  /\ two_step' = [two_step EXCEPT
       !.last_step = IF a.kind = "totp" THEN a.step ELSE @,
       !.spent = @ \/ a.kind = "totp",
       !.failed = 0, !.locked_until = 0]
  /\ codes' = codes \ {a}
  /\ sign_counts' = IF a.kind = "passkey"
                    THEN [sign_counts EXCEPT ![a.key] = a.count] ELSE sign_counts

Count(f, a) == [x \in DOMAIN f \cup {a} |->
                  (IF x \in DOMAIN f THEN f[x] ELSE 0) + (IF x = a THEN 1 ELSE 0)]

(* A right answer uses the ticket up and is a session.  If another request  *)
(* used the ticket first, everything is rolled back.                        *)
Accept(b) ==
  LET k == request[b].ticket IN
  /\ request[b].at = "guarded" /\ ~NoChallenge(b) /\ Right(b)
  /\ IF Issued(k)
     THEN /\ Spend(b)
          /\ tickets' = Gone(k)
          /\ sessions' = [sessions EXCEPT ![k] = @ + 1]
          /\ accepted' = IF request[b].answer.kind = "passkey" THEN accepted
                         ELSE Count(accepted, request[b].answer)
          /\ tries' = 0
     ELSE UNCHANGED <<two_step, codes, sign_counts, tickets, sessions, accepted, tries>>
  /\ Release(b)
  /\ UNCHANGED rest

(* A wrong one is counted, and the count committed; one too many begins the *)
(* pause.  A passkey's challenge is spent either way.                       *)
Reject(b) ==
  LET k == request[b].ticket IN
  /\ request[b].at = "guarded" /\ ~NoChallenge(b) /\ ~Right(b)
  /\ two_step' = [two_step EXCEPT
       !.failed = @ + 1,
       !.locked_until = IF two_step.failed + 1 >= MaxFailures
                        THEN request[b].now + Pause ELSE @]
  /\ tries' = tries + 1
  /\ tickets' = IF request[b].answer.kind = "passkey"
                THEN [tickets EXCEPT ![k].challenge = FALSE] ELSE tickets
  /\ Release(b)
  /\ UNCHANGED <<rest, sign_counts, codes, sessions, accepted>>

(* A challenge for one of the account's passkeys, also under the lock. *)
PasskeyOptions(k) ==
  /\ Found(k, "verify") /\ holder = Nobody
  /\ two_step.locked_until <= now /\ DOMAIN sign_counts # {}
  /\ tickets' = [tickets EXCEPT ![k].challenge = TRUE]
  /\ two_step' = IF two_step.locked_until # 0
                 THEN [two_step EXCEPT !.locked_until = 0, !.failed = 0] ELSE two_step
  /\ tries' = IF two_step.locked_until # 0 THEN 0 ELSE tries
  /\ UNCHANGED <<rest, sign_counts, codes, request, holder, sessions, accepted>>

-----------------------------------------------------------------------------
(* Methods, in Settings or while a sign-in is forced to set one up.  Every   *)
(* write of the row waits for its lock.                                     *)

Writes == holder = Nobody /\ UNCHANGED <<now, required, request, holder, sessions>>

(* after_method_added: a first method brings recovery codes. *)
NewCodes == {c \in Code : c.set = made.sets + 1}
MethodAdded(row, keys, secrets) ==
  /\ row.generated \/ made.sets < MaxSets
  /\ sign_counts' = keys
  /\ two_step' = [row EXCEPT !.generated = TRUE]
  /\ codes' = IF row.generated THEN codes ELSE NewCodes
  /\ made' = [secrets |-> secrets,
              sets |-> IF row.generated THEN made.sets ELSE made.sets + 1]

(* after_method_removed: without a method the recovery codes go. *)
MethodRemoved(row, keys) ==
  LET on == row.confirmed \/ DOMAIN keys # {} IN
  /\ required => on
  /\ sign_counts' = keys
  /\ two_step' = [row EXCEPT !.generated = @ /\ on]
  /\ codes' = IF on THEN codes ELSE {}

(* totp.begin: a new secret, unconfirmed. *)
BeginTotp ==
  /\ Writes /\ ~HasTotp /\ made.secrets < MaxSecrets
  /\ two_step' = [two_step EXCEPT !.secret = made.secrets + 1, !.last_step = 0,
                                  !.spent = FALSE]
  /\ made' = [made EXCEPT !.secrets = @ + 1]
  /\ UNCHANGED <<sign_counts, codes, tickets, accepted, tries>>

(* totp.confirm: the confirming code is spent. *)
Confirmed(s) ==
  [two_step EXCEPT !.confirmed = TRUE, !.last_step = s, !.spent = TRUE]

(* The row as it is once a code for the secret, of a step around now, has   *)
(* confirmed it; the code counts as an answer that was accepted.            *)
ConfirmTotp ==
  /\ Writes /\ two_step.secret # 0 /\ ~HasTotp
  /\ \E s \in Window(now) :
       /\ MethodAdded(Confirmed(s), sign_counts, made.secrets)
       /\ accepted' = Count(accepted, [kind |-> "totp", secret |-> two_step.secret,
                                       step |-> s])
  /\ UNCHANGED tries

(* A new credential has counted or not; that it can count on is a bound. *)
AddPasskey ==
  /\ Writes
  /\ \E p \in Passkeys \ DOMAIN sign_counts : \E n \in 0 .. MaxCount - 1 :
       MethodAdded(two_step, [q \in DOMAIN sign_counts \cup {p} |->
                                IF q = p THEN n ELSE sign_counts[q]], made.secrets)
  /\ UNCHANGED <<accepted, tries>>

SettingsTotp == ConfirmTotp /\ UNCHANGED tickets
(* The register ticket of Settings carries the challenge and is used up. *)
PasskeyRegistrationOptions(k) ==
  /\ Issue(k, "register", TRUE)
  /\ UNCHANGED <<rest, two_step, sign_counts, codes, request, holder, proofs>>
SettingsPasskey(k) ==
  /\ Found(k, "register") /\ tickets[k].challenge
  /\ AddPasskey /\ tickets' = Gone(k)

RemoveTotp ==
  /\ Writes /\ HasTotp
  /\ MethodRemoved([two_step EXCEPT !.secret = 0, !.confirmed = FALSE,
                                    !.last_step = 0, !.spent = FALSE], sign_counts)
  /\ UNCHANGED <<made, tickets, accepted, tries>>
RemovePasskey ==
  /\ Writes
  /\ \E p \in DOMAIN sign_counts :
       MethodRemoved(two_step, [q \in DOMAIN sign_counts \ {p} |-> sign_counts[q]])
  /\ UNCHANGED <<made, tickets, accepted, tries>>
RegenerateCodes ==
  /\ Writes /\ IsOn /\ made.sets < MaxSets
  /\ codes' = NewCodes /\ made' = [made EXCEPT !.sets = @ + 1]
  /\ two_step' = [two_step EXCEPT !.generated = TRUE]
  /\ UNCHANGED <<sign_counts, tickets, accepted, tries>>

(* The forced setup: the ticket that added the method is exchanged for the  *)
(* session, which another request may do first.                             *)
SetupDone(k) == tickets' = [tickets EXCEPT ![k].purpose = "setup_done"]
SetupTotp(k) == Found(k, "setup") /\ ~IsOn /\ ConfirmTotp /\ SetupDone(k)
SetupPasskeyOptions(k) ==
  /\ Found(k, "setup") /\ ~IsOn
  /\ tickets' = [tickets EXCEPT ![k].challenge = TRUE]
  /\ UNCHANGED <<rest, two_step, sign_counts, codes, request, holder, proofs>>
SetupPasskey(k) ==
  /\ Found(k, "setup") /\ ~IsOn /\ tickets[k].challenge
  /\ AddPasskey /\ SetupDone(k)

FinishSetup(b, k) ==
  /\ request[b].at = "idle" /\ Found(k, "setup_done") /\ IsOn
  /\ Ask(b, [at |-> "finishing", ticket |-> k])
  /\ UNCHANGED <<rest, two_step, sign_counts, codes, tickets, holder, proofs>>

(* Mutant of ConsumeSetup: the row count of the delete is not looked at. *)
ConsumeUnchecked(b) ==
  LET k == request[b].ticket IN
  /\ request[b].at = "finishing" /\ holder = Nobody
  /\ tickets' = Gone(k)
  /\ sessions' = [sessions EXCEPT ![k] = @ + 1]
  /\ two_step' = [two_step EXCEPT !.failed = 0, !.locked_until = 0]
  /\ tries' = 0
  /\ Ask(b, AtRest)
  /\ UNCHANGED <<rest, sign_counts, codes, holder, accepted>>

ConsumeSetup(b) ==
  LET k == request[b].ticket IN
  /\ request[b].at = "finishing" /\ holder = Nobody
  /\ IF Issued(k)
     THEN /\ tickets' = Gone(k)
          /\ sessions' = [sessions EXCEPT ![k] = @ + 1]
          /\ two_step' = [two_step EXCEPT !.failed = 0, !.locked_until = 0]
          /\ tries' = 0
     ELSE UNCHANGED <<tickets, sessions, two_step, tries>>
  /\ Ask(b, AtRest)
  /\ UNCHANGED <<rest, sign_counts, codes, holder, accepted>>

-----------------------------------------------------------------------------
(* An administrator's reset removes everything the account has. *)
Reset ==
  /\ Writes
  /\ two_step' = NoRow /\ codes' = {} /\ sign_counts' = [p \in {} |-> 0]
  /\ tickets' = [k \in TicketIds |-> IF Issued(k) THEN [purpose |-> "gone"]
                                     ELSE tickets[k]]
  /\ tries' = 0
  /\ UNCHANGED <<made, accepted>>

SetRequired ==
  /\ required' = ~required
  /\ UNCHANGED <<now, two_step, sign_counts, codes, made, tickets, request,
                 holder, proofs>>

Tick ==
  /\ now < MaxNow
  /\ now' = now + 1
  /\ UNCHANGED <<required, two_step, sign_counts, codes, made, tickets, request,
                 holder, proofs>>

SignInNext ==
  \/ \E k \in TicketIds :
       \/ Login(k) \/ PasskeyOptions(k) \/ PasskeyRegistrationOptions(k)
       \/ SettingsPasskey(k) \/ SetupTotp(k) \/ SetupPasskeyOptions(k) \/ SetupPasskey(k)
       \/ \E b \in Browsers : Verify(b, k) \/ FinishSetup(b, k)
  \/ \E b \in Browsers : Guard(b) \/ Refuse(b) \/ Accept(b) \/ Reject(b) \/ ConsumeSetup(b)
  \/ BeginTotp \/ SettingsTotp \/ RemoveTotp \/ RemovePasskey \/ RegenerateCodes
  \/ Reset \/ SetRequired \/ Tick

SignInSpec == SignInInit /\ [][SignInNext]_signInVars

-----------------------------------------------------------------------------
(* A ticket buys at most one session, whoever presents it and however often *)
(* at once.                                                                 *)
TicketBuysOneSession == \A k \in TicketIds : sessions[k] <= 1

(* A code of the authenticator or of the list works once, also when it is   *)
(* the one that confirmed the authenticator.                                *)
CodeWorksOnce == \A a \in DOMAIN accepted : accepted[a] <= 1

(* No more than MaxFailures wrong answers are checked before a pause, even  *)
(* when the answers come at once.                                           *)
TriesAreBounded == tries <= MaxFailures
=============================================================================
