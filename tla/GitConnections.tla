---------------------------- MODULE GitConnections ----------------------------
(* One connection to a Git provider: its row with the credential and what   *)
(* the last test of it said, and the repositories linked through it.  Each  *)
(* request has a session of its own, which writes only the columns that it  *)
(* changed; a test is a call to the provider that may take ten seconds.     *)
EXTENDS Naturals, FiniteSets

CONSTANTS
  Askers,        (* the requests; each is made once, by an administrator *)
  Credentials,
  NoCredential,
  NoConnection,
  NoAsker

ASSUME GitConnectionsAssumption ==
  /\ NoAsker \notin Askers /\ NoCredential \notin Credentials
  /\ NoConnection \notin [id : Askers, credential : Credentials,
                          status : {"unknown", "ok", "failed"}, about : Credentials]

VARIABLES
  connection, (* the row: id, credential, validation_status, and, as an       *)
              (* observer, the credential of which that was said              *)
  linked,     (* the project_repositories rows that refer to it *)
  writer,     (* whose transaction has written the row and not committed *)
  asks,       (* the requests, with their session's view of the row *)
  rotated     (* observer: a credential was replaced while POST /test was    *)
              (* testing one                                                  *)

gitConnectionsVars == <<connection, linked, writer, asks, rotated>>

Statuses == {"unknown", "ok", "failed"}
Connections == [id : Askers, credential : Credentials, status : Statuses,
                about : Credentials]
Fresh == [at |-> "idle"]
ConnectionExists == connection # NoConnection
StillThere(a) == ConnectionExists /\ connection.id = asks[a].row.id
Free(a) == writer \in {a, NoAsker}

BeginAsk(a, kind, at, row, new) ==
  /\ asks[a].at = "idle"
  /\ asks' = [asks EXCEPT ![a] = [at |-> at, kind |-> kind, row |-> row, new |-> new,
                                  result |-> "unknown"]]
Goes(a, at) == asks' = [asks EXCEPT ![a].at = at]

-----------------------------------------------------------------------------
(* The provider's answer to a test (external), and what is made of it: a    *)
(* credential that cannot be decrypted fails without a call.                *)

HttpTest(answer) == IF answer = "2xx" THEN "ok" ELSE "failed"
LsRemoteTest(outcome) == IF outcome = "exit 0" THEN "ok" ELSE "failed"
TestResults ==
  {HttpTest(x) : x \in {"2xx", "other status", "timeout", "error"}} \cup
  {LsRemoteTest(x) : x \in {"exit 0", "exit other", "timeout", "no base_url", "no git"}}

RunTest(a) ==
  /\ asks[a].at = "test"
  /\ \E r \in TestResults \cup {"failed"} :
       asks' = [asks EXCEPT ![a].at = "save", ![a].result = r]
  /\ UNCHANGED <<connection, linked, writer, rotated>>

(* The columns a session writes of its result: only a status that is not    *)
(* the one it has.                                                          *)
WithVerdict(a, row) ==
  IF asks[a].result \in {"unknown", asks[a].row.status} THEN row
  ELSE [row EXCEPT !.status = asks[a].result, !.about = asks[a].row.credential]

-----------------------------------------------------------------------------
(* create_connection: the row is inserted, not committed, before its test.  *)
(* The name is unique: another insert waits for this one, and then fails.   *)
CreateConnection(a, c) ==
  /\ \/ /\ ConnectionExists
        /\ BeginAsk(a, "create", "error", NoConnection, c)
        /\ UNCHANGED writer
     \/ /\ ~ConnectionExists /\ writer = NoAsker
        /\ BeginAsk(a, "create", "test",
                 [id |-> a, credential |-> c, status |-> "unknown", about |-> c], c)
        /\ writer' = a
  /\ UNCHANGED <<connection, linked, rotated>>

(* update_connection reads the row; a body without a credential changes     *)
(* only what is left out here.                                              *)
ReadUpdate(a, c) ==
  /\ ConnectionExists /\ BeginAsk(a, "update", "flush", connection, c)
  /\ UNCHANGED <<connection, linked, writer, rotated>>

Rotates(a) == asks[a].new # NoCredential

(* Mutant of FlushUpdate: the row is first written at the commit. *)
FlushLate(a) ==
  /\ asks[a].at = "flush"
  /\ asks' = [asks EXCEPT
       ![a].at = IF Rotates(a) THEN "test" ELSE "save",
       ![a].row.credential = IF Rotates(a) THEN asks[a].new ELSE @]
  /\ UNCHANGED <<connection, linked, writer, rotated>>

(* The UPDATE waits for the row and keeps it until the commit.  From then   *)
(* on the session has the new credential, and that its status is unknown.   *)
FlushUpdate(a) ==
  /\ asks[a].at = "flush" /\ Free(a)
  /\ IF StillThere(a)
     THEN /\ writer' = a
          /\ asks' = [asks EXCEPT
               ![a].at = IF Rotates(a) THEN "test" ELSE "save",
               ![a].row.credential = IF Rotates(a) THEN asks[a].new ELSE @,
               ![a].row.status = IF Rotates(a) THEN "unknown" ELSE @]
     ELSE Goes(a, "error") /\ UNCHANGED writer
  /\ UNCHANGED <<connection, linked, rotated>>

(* test_connection reads the row; it writes nothing before its test.        *)
ReadTest(a) ==
  /\ ConnectionExists /\ BeginAsk(a, "test", "test", connection, NoCredential)
  /\ UNCHANGED <<connection, linked, writer, rotated>>

(* The commits.  A row that is gone makes the session fail.                 *)
Commit(a) ==
  /\ asks[a].at = "save" /\ Free(a)
  /\ IF asks[a].kind = "create" \/ StillThere(a)
     THEN /\ Goes(a, "done")
          /\ connection' =
               CASE asks[a].kind = "create" -> WithVerdict(a, asks[a].row)
                 [] asks[a].kind = "update" /\ Rotates(a) ->
                      WithVerdict(a, [connection EXCEPT !.credential = asks[a].new])
                 [] OTHER -> WithVerdict(a, connection)
          /\ rotated' = (rotated \/ /\ asks[a].kind = "update" /\ Rotates(a)
                                    /\ \E x \in Askers \ {a} :
                                         /\ asks[x].at \in {"test", "save"}
                                         /\ asks[x].kind = "test")
     ELSE Goes(a, "error") /\ UNCHANGED <<connection, rotated>>
  /\ writer' = IF writer = a THEN NoAsker ELSE writer
  /\ UNCHANGED linked

-----------------------------------------------------------------------------
(* delete_connection: refused while a repository is linked, and again by    *)
(* the database if one was linked since.                                    *)
CheckDelete(a) ==
  /\ ConnectionExists
  /\ BeginAsk(a, "delete", IF linked = {} THEN "delete" ELSE "error", connection,
           NoCredential)
  /\ UNCHANGED <<connection, linked, writer, rotated>>

CommitDeletion(a) ==
  /\ asks[a].at = "delete" /\ Free(a)
  /\ IF StillThere(a) /\ linked # {}
     THEN Goes(a, "error") /\ UNCHANGED connection
     ELSE /\ Goes(a, "done")
          /\ connection' = IF StillThere(a) THEN NoConnection ELSE connection
  /\ UNCHANGED <<linked, writer, rotated>>

(* link_repository finds the connection, and inserts under its foreign key. *)
ReadLink(a) ==
  /\ ConnectionExists /\ BeginAsk(a, "link", "link", connection, NoCredential)
  /\ UNCHANGED <<connection, linked, writer, rotated>>

CommitLink(a) ==
  /\ asks[a].at = "link"
  /\ IF StillThere(a) THEN Goes(a, "done") /\ linked' = linked \cup {a}
     ELSE Goes(a, "error") /\ UNCHANGED linked
  /\ UNCHANGED <<connection, writer, rotated>>

(* unlink_repository *)
Unlink(r) ==
  /\ r \in linked /\ linked' = linked \ {r}
  /\ UNCHANGED <<connection, writer, asks, rotated>>

(* A request dies; what it did not commit is rolled back. *)
AbortAsk(a) ==
  /\ asks[a].at \in {"flush", "test", "save", "delete", "link"}
  /\ Goes(a, "error")
  /\ writer' = IF writer = a THEN NoAsker ELSE writer
  /\ UNCHANGED <<connection, linked, rotated>>

GitConnectionsNext ==
  \E a \in Askers :
    \/ \E c \in Credentials : CreateConnection(a, c)
    \/ \E c \in Credentials \cup {NoCredential} : ReadUpdate(a, c)
    \/ FlushUpdate(a) \/ ReadTest(a) \/ RunTest(a) \/ Commit(a)
    \/ CheckDelete(a) \/ CommitDeletion(a)
    \/ ReadLink(a) \/ CommitLink(a) \/ Unlink(a) \/ AbortAsk(a)

GitConnectionsInit ==
  /\ connection = NoConnection /\ linked = {} /\ writer = NoAsker
  /\ asks = [a \in Askers |-> Fresh] /\ rotated = FALSE

GitConnectionsSpec == GitConnectionsInit /\ [][GitConnectionsNext]_gitConnectionsVars

GitConnectionsTypeOK ==
  /\ connection \in Connections \cup {NoConnection}
  /\ linked \subseteq Askers /\ writer \in Askers \cup {NoAsker}
  /\ asks \in [Askers -> {Fresh} \cup
       [at : {"test", "flush", "save", "delete", "link", "done", "error"},
        kind : {"create", "update", "test", "delete", "link"},
        row : Connections \cup {NoConnection}, new : Credentials \cup {NoCredential},
        result : Statuses]]
  /\ rotated \in BOOLEAN

-----------------------------------------------------------------------------
(* What a connection says of its credential was found out about the one it  *)
(* has: of two updates that overlap, the row never ends with the credential *)
(* of one and the verdict on the other's.  Only POST /test, which does not  *)
(* hold the row while it asks, can put its verdict on a credential that     *)
(* came since.                                                              *)
VerdictIsOnCredential ==
  ConnectionExists /\ connection.status # "unknown" /\ ~rotated =>
    connection.about = connection.credential
=============================================================================
