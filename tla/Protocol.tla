------------------------------ MODULE Protocol ------------------------------
(***************************************************************************)
(* One connection: the client library (src/libpq/libpq.cpp), the two byte  *)
(* streams of its socket, and the server process behind it (BackendMain of *)
(* src/server/postmaster.cpp, the handlers of src/protocol/postgres.cpp,   *)
(* authentication in src/protocol/auth.cpp).                               *)
(*                                                                         *)
(* A handler of the server is one step: it reads a message and writes all  *)
(* its answers.  The client reads one message per step, as GetResult and   *)
(* DoStartupAuth do.  A query string is a sequence of statements, each     *)
(* named by what it makes the server do: "select" and "update" succeed,    *)
(* "fail" is a query that fails after its first row, "missing" fails in    *)
(* analysis; the string <<"syntax">> fails in raw_parser.  Every query     *)
(* the application makes is numbered, and a message on its way to the      *)
(* client carries the number of the query it answers (a history variable   *)
(* in the message: the code has no such thing).                            *)
(***************************************************************************)
EXTENDS Integers, Sequences, FiniteSets, SequencesExt

CONSTANTS Scripts,     \* query strings the application uses
          Names,       \* statement names, "" among them
          Methods,     \* authentication methods of pg_hba.conf
          MaxCalls,    \* bound: queries of one connection
          MaxOwed      \* bound: no pipeline is begun with so many answers unread

VARIABLES
  toServer,   \* messages the server has not read
  toClient,   \* messages the client has not read
  server,     \* the process: phase, prepared statements, the unnamed portal
  client,     \* the PgConn object and where the application is in it
  asked,      \* per query: the string it has asked for
  returned,   \* history: queries whose messages made up the last result
  owed        \* history: ReadyForQuery messages nobody waits for

vars == <<toServer, toClient, server, client, asked, returned, owed>>

Calls == 1 .. MaxCalls
NoStatement == 0

(* A new Backend: no statements, no portals.  A PreparedStatement object   *)
(* is named by the query whose Parse message created it.                   *)
Backend(phase) ==
  [phase |-> phase, prepared |-> [n \in Names |-> NoStatement],
   portal |-> NoStatement, method |-> "trust", password |-> TRUE]

(* PgResult as constructed.                                                *)
PgResult ==
  [status |-> "FatalError", rows |-> 0, fields |-> FALSE, tag |-> FALSE,
   error |-> FALSE, from |-> {}]

(* PgConn as constructed.  pc: "out" is outside the library, "connect" in  *)
(* DoStartupAuth, "result" in GetResult.                                   *)
PgConn ==
  [pc |-> "out", conn |-> "bad", call |-> 0, first |-> 0, async |-> FALSE,
   query_done |-> FALSE, single_row |-> FALSE, pipeline |-> FALSE,
   unsynced |-> FALSE, cur |-> PgResult]

Init ==
  /\ toServer = <<>> /\ toClient = <<>>
  /\ server = Backend("none") /\ client = PgConn
  /\ asked = [c \in Calls |-> <<>>]
  /\ returned = {} /\ owed = 0

-----------------------------------------------------------------------------
(* Connecting.                                                             *)

Message(type, c) == [type |-> type, call |-> c]

(* PgConn::Connect: TryConnect, SendStartupMessage.  The postmaster forks  *)
(* a process with a Backend of its own.                                    *)
Connect(method, password) ==
  /\ client.pc = "out" /\ client.conn = "bad"
  /\ client' = [client EXCEPT !.pc = "connect"]
  /\ server' = [Backend("startup") EXCEPT !.method = method, !.password = password]
  /\ toServer' = <<Message("startup", 0)>> /\ toClient' = <<>>
  /\ UNCHANGED <<asked, returned, owed>>

(* Finish: Terminate, close; single_row_mode_ is not reset.  What was      *)
(* underway in either direction is lost with the socket.                   *)
Finish ==
  /\ client.pc = "out" /\ client.conn = "ok"
  /\ client' = [PgConn EXCEPT !.single_row = client.single_row]
  /\ server' = Backend("none")
  /\ toServer' = <<>> /\ toClient' = <<>>
  /\ asked' = [c \in Calls |-> <<>>] /\ returned' = {} /\ owed' = 0

(* BackendMain after a successful ClientAuthentication: AuthenticationOk,  *)
(* ParameterStatus, BackendKeyData, ReadyForQuery.                         *)
Welcome == [i \in 1..4 |-> Message(<<"R0", "S", "K", "Z">>[i], 0)]

(* ClientAuthentication without a reply from the client: the answer and    *)
(* the phase of the server after it.  CheckScramAuth asks first; the       *)
(* reply libpq never sends is handled in PasswordMessage.                  *)
ClientAuthentication(method) ==
  CASE method = "trust"    -> [out |-> Welcome, phase |-> "ready"]
    [] method = "password" -> [out |-> <<Message("R3", 0)>>, phase |-> "auth"]
    [] method = "md5"      -> [out |-> <<Message("R5", 0)>>, phase |-> "auth"]
    [] method = "scram"    -> [out |-> <<Message("R10", 0)>>, phase |-> "auth"]
    [] OTHER               -> [out |-> <<Message("E", 0)>>, phase |-> "gone"]

(* ProcessStartupPacket, SelectHbaLine and ClientAuthentication.           *)
Startup ==
  /\ server.phase = "startup" /\ toServer # <<>>
  /\ LET a == ClientAuthentication(server.method) IN
       /\ toClient' = toClient \o a.out
       /\ server' = IF a.phase = "ready" THEN Backend("ready")
                    ELSE [server EXCEPT !.phase = a.phase]
  /\ toServer' = Tail(toServer)
  /\ UNCHANGED <<client, asked, returned, owed>>

(* ReadPasswordMessage and the rest of CheckPasswordAuth or CheckMd5Auth.  *)
(* libpq sends the password in clear for both; a clear password is not 32  *)
(* digits, and CheckMd5Auth refuses it.                                    *)
PasswordMessage ==
  /\ server.phase = "auth" /\ toServer # <<>>
  /\ LET ok == server.method = "password" /\ server.password IN
       /\ toClient' = toClient \o (IF ok THEN Welcome ELSE <<Message("E", 0)>>)
       /\ server' = Backend(IF ok THEN "ready" ELSE "gone")
  /\ toServer' = Tail(toServer)
  /\ UNCHANGED <<client, asked, returned, owed>>

(* DoStartupAuth, one message.                                             *)
DoStartupAuth ==
  /\ client.pc = "connect" /\ toClient # <<>>
  /\ LET m == Head(toClient).type
         asksPassword == m \in {"R3", "R5"}
         fails == m \in {"R10", "E"}
     IN
       /\ toServer' = IF asksPassword THEN Append(toServer, Message("p", 0))
                                      ELSE toServer
       /\ client' = CASE fails   -> [client EXCEPT !.pc = "out"]
                      [] m = "Z" -> [client EXCEPT !.pc = "out", !.conn = "ok"]
                      [] OTHER   -> client
       /\ server' = IF fails THEN Backend("none") ELSE server
  /\ toClient' = Tail(toClient)
  /\ UNCHANGED <<asked, returned, owed>>

-----------------------------------------------------------------------------
(* The server.                                                             *)

SyntaxError(script) == "syntax" \in Range(script)

(* parse_analyze, planning and ExecuteQuery of one statement: the types of *)
(* the messages it causes.  RowDescription is sent here in the simple      *)
(* protocol only.  The error of "fail" comes after a row.                  *)
ExecuteQuery(stmt, describe) ==
  LET description == IF describe THEN <<"T">> ELSE <<>>
  IN CASE stmt = "select"  -> description \o <<"D", "C">>
       [] stmt = "update"  -> <<"C">>
       [] stmt = "fail"    -> description \o <<"D", "E">>
       [] stmt = "missing" -> <<"E">>

(* Reads a message and answers it.                                         *)
Answer(types) ==
  LET c == Head(toServer).call IN
  /\ toServer' = Tail(toServer)
  /\ toClient' = toClient \o [i \in DOMAIN types |-> Message(types[i], c)]
  /\ UNCHANGED <<client, asked, returned, owed>>

Reads(type) ==
  /\ server.phase = "ready" /\ toServer # <<>> /\ Head(toServer).type = type

(* exec_simple_query: the statements in order, up to the first that fails. *)
(* Mutant: an error ends the answer.                                       *)
exec_simple_query_silent ==
  /\ Reads("Q")
  /\ LET c == Head(toServer).call
         Step(out, stmt) == IF "E" \in Range(out) THEN out
                            ELSE out \o ExecuteQuery(stmt, TRUE)
         out == FoldLeft(Step, <<>>, asked[c])
     IN Answer(IF asked[c] = <<>> THEN <<"I", "Z">>
               ELSE IF SyntaxError(asked[c]) THEN <<"E">>
               ELSE IF "E" \in Range(out) THEN out ELSE Append(out, "Z"))
  /\ UNCHANGED server

exec_simple_query ==
  /\ Reads("Q")
  /\ LET c == Head(toServer).call
         Step(out, stmt) == IF "E" \in Range(out) THEN out
                            ELSE out \o ExecuteQuery(stmt, TRUE)
     IN Answer(IF asked[c] = <<>> THEN <<"I", "Z">>
               ELSE IF SyntaxError(asked[c]) THEN <<"E", "Z">>
               ELSE Append(FoldLeft(Step, <<>>, asked[c]), "Z"))
  /\ UNCHANGED server

(* HandleParse analyses all statements first; a statement of that name is  *)
(* deleted, and a portal may go on pointing to it.                         *)
HandleParse ==
  /\ Reads("P")
  /\ LET m == Head(toServer)
         ok == ~SyntaxError(asked[m.call]) /\ "missing" \notin Range(asked[m.call])
     IN /\ Answer(IF ok THEN <<"1">> ELSE <<"E">>)
        /\ server' = IF ok THEN [server EXCEPT !.prepared[m.name] = m.call]
                           ELSE server

HandleBind ==
  /\ Reads("B")
  /\ LET stmt == server.prepared[Head(toServer).name] IN
       /\ Answer(IF stmt # NoStatement THEN <<"2">> ELSE <<"E">>)
       /\ server' = IF stmt # NoStatement THEN [server EXCEPT !.portal = stmt]
                                          ELSE server

(* stmt->has_results: the first query is a SELECT.                         *)
HasResults(script) == script # <<>> /\ script[1] \in {"select", "fail"}

Description(script) == IF HasResults(script) THEN <<"T">> ELSE <<"n">>

(* What a pointer to a PreparedStatement reads: the string it was made     *)
(* from, or after its deletion anything the memory holds now; here the     *)
(* old contents or an object without queries.                              *)
Contents(stmt) ==
  IF stmt \in Range(server.prepared) THEN {asked[stmt]} ELSE {asked[stmt], <<>>}

DescribeStatement ==
  /\ Reads("Ds")
  /\ LET stmt == server.prepared[Head(toServer).name] IN
       Answer(IF stmt # NoStatement THEN <<"t">> \o Description(asked[stmt])
                                    ELSE <<"E">>)
  /\ UNCHANGED server

DescribePortal ==
  /\ Reads("Dp")
  /\ IF server.portal = NoStatement THEN Answer(<<"E">>)
     ELSE \E script \in Contents(server.portal) : Answer(Description(script))
  /\ UNCHANGED server

(* HandleExecute: query_index is always 0, max_rows is ignored.            *)
HandleExecute ==
  /\ Reads("E")
  /\ IF server.portal = NoStatement THEN Answer(<<"E">>)
     ELSE \E script \in Contents(server.portal) :
            IF script = <<>> THEN Answer(<<"E">>)
            ELSE Answer(ExecuteQuery(script[1], FALSE))
  /\ UNCHANGED server

HandleSync == Reads("S") /\ Answer(<<"Z">>) /\ UNCHANGED server

(* HandleClose of a statement, as HandleParse does.                        *)
HandleClose ==
  /\ Reads("C")
  /\ Answer(<<"3">>)
  /\ server' = [server EXCEPT !.prepared[Head(toServer).name] = NoStatement]

-----------------------------------------------------------------------------
(* The client library.                                                     *)

Named(type, c, name) == [type |-> type, call |-> c, name |-> name]

Execution(c, name) ==
  <<Named("B", c, name), Message("Dp", c), Message("E", c)>>

(* SendQuery, SendQueryParams, SendPrepare, SendQueryPrepared: messages of *)
(* query c without the Sync.  "close" and "describe" are sent by frontends *)
(* other than PgConn.                                                      *)
Sent(kind, c, name) ==
  CASE kind = "query"        -> <<Message("Q", c)>>
    [] kind = "params"       -> <<Named("P", c, "")>> \o Execution(c, "")
    [] kind = "prepare"      -> <<Named("P", c, name)>>
    [] kind = "execPrepared" -> Execution(c, name)
    [] kind = "close"        -> <<Named("C", c, name)>>
    [] kind = "describe"     -> <<Named("Ds", c, name)>>

Synced(kind, c) == IF kind = "query" THEN <<>> ELSE <<Message("S", c)>>

Kinds == {"query", "params", "prepare", "execPrepared", "close", "describe"}

(* Exec, ExecParams, Prepare, ExecPrepared, and their Send variants with   *)
(* an application that calls GetResult until it is empty (async).          *)
Call(kind, name, script, async) ==
  LET c == client.call + 1 IN
  /\ client.pc = "out" /\ client.conn = "ok" /\ ~client.pipeline
  /\ c \in Calls
  /\ kind \in {"query", "params"} => name = ""
  /\ kind \in {"execPrepared", "close", "describe"} => script = <<>>
  /\ asked' = [asked EXCEPT ![c] = script]
  /\ toServer' = toServer \o Sent(kind, c, name) \o Synced(kind, c)
  /\ client' = [client EXCEPT !.pc = "result", !.call = c, !.first = c,
                              !.async = async, !.query_done = FALSE, !.cur = PgResult]
  /\ returned' = {}
  /\ UNCHANGED <<toClient, server, owed>>

SetSingleRowMode ==
  /\ client.pc = "out" /\ client.conn = "ok" /\ ~client.single_row
  /\ client' = [client EXCEPT !.single_row = TRUE]
  /\ UNCHANGED <<toServer, toClient, server, asked, returned, owed>>

EnterPipelineMode ==
  /\ client.pc = "out" /\ client.conn = "ok" /\ ~client.pipeline
  /\ owed < MaxOwed
  /\ client' = [client EXCEPT !.pipeline = TRUE, !.first = client.call + 1]
  /\ returned' = {}
  /\ UNCHANGED <<toServer, toClient, server, asked, owed>>

(* SendQueryParams in pipeline mode: no Sync, and nobody waits.            *)
PipelineSend(script) ==
  LET c == client.call + 1 IN
  /\ client.pc = "out" /\ client.pipeline
  /\ c \in Calls
  /\ asked' = [asked EXCEPT ![c] = script]
  /\ toServer' = toServer \o Sent("params", c, "")
  /\ client' = [client EXCEPT !.call = c, !.query_done = FALSE, !.unsynced = TRUE]
  /\ UNCHANGED <<toClient, server, returned, owed>>

(* PipelineSync, after which the application calls GetResult until it is   *)
(* empty.                                                                  *)
PipelineSync ==
  /\ client.pc = "out" /\ client.pipeline /\ client.unsynced
  /\ toServer' = Append(toServer, Message("S", client.call))
  /\ client' = [client EXCEPT !.pc = "result", !.async = TRUE,
                              !.unsynced = FALSE, !.cur = PgResult]
  /\ returned' = {}
  /\ UNCHANGED <<toClient, server, asked, owed>>

(* ExitPipelineMode sends a Sync whether or not one is missing.  The       *)
(* application reads the answer if it has queries there.                   *)
ExitPipelineMode ==
  /\ client.pc = "out" /\ client.pipeline
  /\ toServer' = Append(toServer, Message("S", client.call))
  /\ client' = [client EXCEPT !.pipeline = FALSE, !.unsynced = FALSE,
                  !.async = TRUE, !.cur = PgResult,
                  !.pc = IF client.unsynced THEN "result" ELSE "out"]
  /\ owed' = IF client.unsynced THEN owed ELSE owed + 1
  /\ returned' = {}
  /\ UNCHANGED <<toClient, server, asked>>

(* GetResult after the message m: the result so far.                       *)
Received(r, m) ==
  LET s == [r EXCEPT !.from = r.from \cup {m.call}] IN
  CASE m.type = "1" -> [s EXCEPT !.status = "CommandOk"]
    [] m.type = "T" -> [s EXCEPT !.status = "TuplesOk", !.fields = TRUE]
    [] m.type = "D" -> [s EXCEPT !.rows = r.rows + 1,
                          !.status = IF client.single_row THEN "SingleTuple" ELSE r.status]
    [] m.type = "C" -> [s EXCEPT !.tag = TRUE,
                          !.status = IF r.status = "FatalError" THEN "CommandOk"
                                                                ELSE r.status]
    [] m.type = "I" -> [s EXCEPT !.status = "EmptyQuery"]
    [] m.type = "E" -> [s EXCEPT !.status = "FatalError", !.error = TRUE]
    [] OTHER        -> s

(* Messages at which GetResult returns.                                    *)
Returns(m) ==
  m.type \in {"E", "Z"} \/ (m.type = "D" /\ client.single_row)

(* The empty result that ends the loop of Exec and of an application.      *)
Terminator(r) ==
  /\ r.status = "FatalError" /\ ~r.error /\ r.rows = 0 /\ ~r.fields /\ ~r.tag

(* The caller of GetResult has result r: Exec and its kin stop at an empty *)
(* result and at an error, leaving the rest of the answer unread.          *)
GotResult(r, done) ==
  LET stops == Terminator(r) \/ (r.status = "FatalError" /\ ~client.async) IN
  /\ client' = [client EXCEPT !.pc = IF stops THEN "out" ELSE "result",
                              !.query_done = done, !.cur = PgResult]
  /\ owed' = IF stops /\ ~Terminator(r) THEN owed + 1 ELSE owed
  /\ returned' = IF Terminator(r) THEN returned ELSE r.from

(* GetResult: the query is over already, or one more message is read.      *)
GetResult ==
  /\ client.pc = "result"
  /\ UNCHANGED <<toServer, server, asked>>
  /\ \/ /\ client.query_done
        /\ GotResult(PgResult, FALSE)
        /\ UNCHANGED toClient
     \/ /\ ~client.query_done /\ toClient # <<>>
        /\ toClient' = Tail(toClient)
        /\ LET m == Head(toClient)
               r == Received(client.cur, m)
           IN IF Returns(m) THEN GotResult(r, m.type = "Z")
              ELSE /\ client' = [client EXCEPT !.cur = r]
                   /\ UNCHANGED <<owed, returned>>

Next ==
  \/ \E m \in Methods, p \in BOOLEAN : Connect(m, p)
  \/ Finish \/ Startup \/ PasswordMessage \/ DoStartupAuth
  \/ exec_simple_query \/ HandleParse \/ HandleBind \/ DescribeStatement
  \/ DescribePortal \/ HandleExecute \/ HandleSync \/ HandleClose
  \/ \E k \in Kinds, n \in Names, s \in Scripts \cup {<<>>}, a \in BOOLEAN : Call(k, n, s, a)
  \/ SetSingleRowMode \/ EnterPipelineMode \/ PipelineSync \/ ExitPipelineMode
  \/ \E s \in Scripts : PipelineSend(s)
  \/ GetResult

Spec == Init /\ [][Next]_vars
-----------------------------------------------------------------------------
(* ReadyForQuery messages that are underway or will be sent.               *)
Pending(type) == Cardinality({i \in DOMAIN toServer : toServer[i].type = type})
ReadyComing ==
  Cardinality({i \in DOMAIN toClient : toClient[i].type = "Z"})
    + Pending("Q") + Pending("S")

(* Exec and GetResult (libpq.cpp) against the handlers of postgres.cpp: as *)
(* long as every answer has been waited for (owed = 0: no Exec stopped at  *)
(* an error, no pipeline was left by a second Sync), a result consists of  *)
(* answers to the application's own current queries, and between queries   *)
(* nothing is underway.  Otherwise the client is behind by exactly the     *)
(* answers nobody waited for: the streams never drift apart further.       *)
ResultsInStep ==
  /\ client.pc = "out" /\ client.conn = "ok" /\ ~client.unsynced => ReadyComing = owed
  /\ owed = 0 => \A c \in returned : c \in client.first .. client.call
  /\ owed = 0 /\ client.pc = "out" /\ client.conn = "ok" /\ ~client.pipeline
       => toClient = <<>>

(* GetResult and DoStartupAuth block in ReadMessage: whoever waits there   *)
(* gets a message, because one is underway or the server has one to read.  *)
WaitingIsAnswered ==
  client.pc # "out" /\ ~(client.pc = "result" /\ client.query_done)
    => toClient # <<>> \/ (toServer # <<>> /\ server.phase # "gone")

(* What the comment in Exec says ("Drain results until ReadyForQuery"):    *)
(* the library never leaves an answer unread, so that a result is always   *)
(* the one of the query just made.                                         *)
ResultIsOfQuery == \A c \in returned : c \in client.first .. client.call
=============================================================================
