----------------------------- MODULE Dashboard ------------------------------
(***************************************************************************)
(* dashboard.rs and bin/dashboard.rs: what the dashboard knows of sessions *)
(* and health, the answers it renders, and the loop that serves them to    *)
(* one HTTP client after another.  The loop is one thread: it reads the    *)
(* request line of the client it has accepted before it looks at the next, *)
(* without a timeout.  Between two clients the program that owns the       *)
(* dashboard brings it up to date.                                         *)
(*                                                                         *)
(* A text is a sequence of characters: a letter, a quotation mark, a       *)
(* backslash, a line feed, another control character.  The counters of a   *)
(* session are one number.                                                 *)
(***************************************************************************)
EXTENDS Integers, Sequences, FiniteSets, SequencesExt, TLC

CONSTANTS
    Configs,        \* the settings of the three enable_ flags
    Ids,            \* session_id texts
    States,         \* texts for the state of a session
    Healths,        \* [healthy, state] the engine may report
    Clients,        \* HTTP clients
    Requests,       \* request lines: [method, path], or Blank for one parse_request_line refuses
    MaxSessions,    \* bound: sessions known at a time
    MaxSecs         \* bound: seconds the server runs

ASSUME DashboardAssumption ==
    /\ Configs \subseteq [health : BOOLEAN, metrics : BOOLEAN, sessions : BOOLEAN]
    /\ MaxSessions \in Nat /\ MaxSecs \in Nat

Quote == "\""
Backslash == "\\"
LineFeed == "LF"
Control == "CTL"

Blank == [method |-> "", path |-> ""]
NoRequest == [method |-> "none", path |-> "none"]
Nobody == "nobody"

VARIABLES
    config,         \* the endpoints that are enabled
    sessions,       \* Vec<SessionStatus>
    health,
    secs,           \* start.elapsed().as_secs()
    backlog,        \* connections the listener has not handed out, oldest first
    serving,        \* the client of the connection the loop is at, or Nobody
    request,        \* the request line the loop has read from it
    client,         \* [at, line, since, got] of each client: got is the status code it received
    known           \* history: the latest status given for each session not removed

board == <<config, sessions, health, known>>
dashboard_vars == <<board, secs, backlog, serving, request, client>>

\* HealthStatus::default()
NewHealth == [healthy |-> TRUE, state |-> <<"s">>, active |-> 0, uptime |-> 0]

Away == [at |-> "away", line |-> NoRequest, since |-> 0, got |-> 0]

DashboardInit ==
    /\ config \in Configs
    /\ sessions = <<>>
    /\ health = NewHealth
    /\ secs = 0
    /\ backlog = <<>>
    /\ serving = Nobody
    /\ request = NoRequest
    /\ client = [c \in Clients |-> Away]
    /\ known = <<>>

-----------------------------------------------------------------------------
(* The dashboard                                                           *)

Status(id, state) == [id |-> id, state |-> state, n |-> Len(state)]

\* The first session with this id.
Find(id) == SelectInSeq(sessions, LAMBDA s : s.id = id)

\* Mutated form: the status is added whether or not the session is known.
update_session_pushes(status) == sessions' = Append(sessions, status)

update_session(status) ==
    sessions' = IF Find(status.id) # 0 THEN [sessions EXCEPT ![Find(status.id)] = status]
                ELSE Append(sessions, status)

remove_session(id) == sessions' = SelectSeq(sessions, LAMBDA s : s.id # id)

update_health(h) == health' = h

json_escape(s) ==
    FlattenSeq([i \in 1 .. Len(s) |->
        CASE s[i] = Quote -> <<Backslash, Quote>>
          [] s[i] = Backslash -> <<Backslash, Backslash>>
          [] s[i] = LineFeed -> <<Backslash, "n">>
          [] s[i] = Control -> <<Backslash, "u">>
          [] OTHER -> <<s[i]>>])

JsonString(s) == <<Quote>> \o json_escape(s) \o <<Quote>>

render_json_health ==
    <<"{", ToString(health.healthy), ",", ToString(health.uptime), ",",
      ToString(health.active), ",">> \o JsonString(health.state) \o <<"}">>

render_json_sessions ==
    LET Object(s) ==
            <<"{">> \o JsonString(s.id) \o <<",">> \o JsonString(s.state)
                \o <<",", ToString(s.n), "}">>
        Element(i) == (IF i > 1 THEN <<",">> ELSE <<>>) \o Object(sessions[i])
    IN <<"[">> \o FlattenSeq([i \in 1 .. Len(sessions) |-> Element(i)]) \o <<"]">>

\* The summary cards, then a table with one row a session, or a note that there is
\* none; texts go in as they are.
render_html_dashboard ==
    <<IF health.healthy THEN "healthy" ELSE "unhealthy">> \o health.state
        \o <<ToString(health.active), ToString(health.uptime)>>
        \o IF sessions = <<>> THEN <<"No active sessions.">>
           ELSE FlattenSeq([i \in 1 .. Len(sessions) |->
                    <<"<tr>">> \o sessions[i].id \o <<"<td>">> \o sessions[i].state
                        \o <<"<td>", ToString(sessions[i].n), "</tr>">>])

render_prometheus_metrics ==
    <<IF health.healthy THEN "1" ELSE "0", ToString(health.active), ToString(health.uptime)>>

\* Five zeros: nothing measures latencies here yet.
render_json_latency == <<"0", "0", "0", "0", "0">>

Response(code, type, body) == [status_code |-> code, content_type |-> type, body |-> body]

not_found == Response(404, "text/plain", <<>>)
method_not_allowed == Response(405, "text/plain", <<>>)

\* An endpoint that can be switched off.
Endpoint(enabled, response) == IF enabled THEN response ELSE not_found

handle_request(method, path) ==
    CASE method # "GET" -> method_not_allowed
      [] path = "/health" ->
            Endpoint(config.health, Response(200, "application/json", render_json_health))
      [] path = "/metrics" ->
            Endpoint(config.metrics, Response(200, "text/plain", render_prometheus_metrics))
      [] path = "/sessions" ->
            Endpoint(config.sessions, Response(200, "application/json", render_json_sessions))
      [] path = "/" -> Response(200, "text/html", render_html_dashboard)
      [] path = "/api/latency" -> Response(200, "application/json", render_json_latency)
      [] OTHER -> not_found

-----------------------------------------------------------------------------
(* The program that owns the dashboard                                     *)

\* The loop is at listener.incoming().
Between == serving = Nobody

UpdateSession(status) ==
    /\ Between
    /\ Cardinality(DOMAIN known \union {status.id}) <= MaxSessions
    /\ update_session(status)
    /\ known' = [id \in DOMAIN known \union {status.id} |->
                    IF id = status.id THEN status ELSE known[id]]
    /\ UNCHANGED <<config, health, secs, backlog, serving, request, client>>

RemoveSession(id) ==
    /\ Between
    /\ remove_session(id)
    /\ known' = [i \in DOMAIN known \ {id} |-> known[i]]
    /\ UNCHANGED <<config, health, secs, backlog, serving, request, client>>

\* The caller reports as many active sessions as session_count() has.
UpdateHealth(h) ==
    /\ Between
    /\ update_health([health EXCEPT !.healthy = h.healthy, !.state = h.state,
                                   !.active = Len(sessions)])
    /\ UNCHANGED <<config, sessions, known, secs, backlog, serving, request, client>>

-----------------------------------------------------------------------------
(* Clients                                                                 *)

Connect(c) ==
    /\ client[c].at = "away"
    /\ client' = [client EXCEPT ![c] = [Away EXCEPT !.at = "there", !.since = secs]]
    /\ backlog' = Append(backlog, c)
    /\ UNCHANGED <<board, secs, serving, request>>

Send(c, line) ==
    /\ client[c].at = "there" /\ client[c].line = NoRequest
    /\ client' = [client EXCEPT ![c].line = line]
    /\ UNCHANGED <<board, secs, backlog, serving, request>>

\* The client closes its end before it has sent anything, or resets the connection
\* before the line is complete.
HangUp(c) ==
    /\ client[c].at = "there" /\ client[c].line = NoRequest
    /\ client' = [client EXCEPT ![c].at = "gone"]
    /\ UNCHANGED <<board, secs, backlog, serving, request>>

\* A client that has had its answer, or none, may come again.
Return(c) ==
    /\ client[c].at = "closed"
    /\ client' = [client EXCEPT ![c] = Away]
    /\ UNCHANGED <<board, secs, backlog, serving, request>>

Second ==
    /\ secs < MaxSecs
    /\ secs' = secs + 1
    /\ UNCHANGED <<board, backlog, serving, request, client>>

-----------------------------------------------------------------------------
(* The loop of main.  An error of accept() changes nothing.                *)

\* incoming() yields a connection and the uptime is updated.
Accept ==
    /\ serving = Nobody /\ backlog # <<>>
    /\ serving' = Head(backlog)
    /\ backlog' = Tail(backlog)
    /\ update_health([health EXCEPT !.uptime = secs])
    /\ UNCHANGED <<config, sessions, known, secs, request, client>>

\* The stream is dropped, after a response with this code or, for 0, without one.
CloseConnection(code) ==
    /\ client' = [client EXCEPT ![serving] = [Away EXCEPT !.at = "closed", !.got = code]]
    /\ serving' = Nobody
    /\ request' = NoRequest
    /\ UNCHANGED <<board, secs, backlog>>

\* The request line has come and parse_request_line finds a method and a path.
ReadRequest ==
    /\ serving # Nobody /\ request = NoRequest
    /\ client[serving].line \notin {NoRequest, Blank}
    /\ request' = client[serving].line
    /\ UNCHANGED <<board, secs, backlog, serving, client>>

\* Mutated form: a line without a method and a path is waited for again.
SkipWaits ==
    /\ serving # Nobody /\ request = NoRequest
    /\ client[serving].at = "gone"
    /\ CloseConnection(0)

\* `continue`: no line, or no method and path in it.
Skip ==
    /\ serving # Nobody /\ request = NoRequest
    /\ client[serving].at = "gone" \/ client[serving].line = Blank
    /\ CloseConnection(0)

\* handle_request is called and what it returns is written; then the next client.
Answer ==
    /\ request # NoRequest
    /\ CloseConnection(handle_request(request.method, request.path).status_code)

Serve == Accept \/ ReadRequest \/ Skip \/ Answer

DashboardNext ==
    \/ \E id \in Ids, s \in States : UpdateSession(Status(id, s))
    \/ \E id \in Ids : RemoveSession(id)
    \/ \E h \in Healths : UpdateHealth(h)
    \/ \E c \in Clients : Connect(c) \/ HangUp(c) \/ Return(c)
    \/ \E c \in Clients, line \in Requests : Send(c, line)
    \/ Second
    \/ Serve

-----------------------------------------------------------------------------
(* Properties                                                              *)

\* What a JSON reader makes of a body: the strings in it, unescaped.
Unescaped(ch) == CASE ch = "n" -> LineFeed [] ch = "u" -> Control [] OTHER -> ch

StringsIn(body) ==
    LET Step(acc, ch) ==
            IF acc.escaped
            THEN [acc EXCEPT !.escaped = FALSE, !.text = Append(@, Unescaped(ch))]
            ELSE IF acc.inside /\ ch = Backslash THEN [acc EXCEPT !.escaped = TRUE]
            ELSE IF acc.inside /\ ch = Quote
            THEN [acc EXCEPT !.inside = FALSE, !.text = <<>>, !.found = Append(@, acc.text)]
            ELSE IF acc.inside THEN [acc EXCEPT !.text = Append(@, ch)]
            ELSE IF ch = Quote THEN [acc EXCEPT !.inside = TRUE]
            ELSE acc
        read == FoldLeft(Step, [inside |-> FALSE, escaped |-> FALSE, text |-> <<>>, found |-> <<>>],
                         body)
    IN [strings |-> read.found, complete |-> ~read.inside]

\* The answer to the request the loop has read.
Answered == handle_request(request.method, request.path)

IsOn(path) ==
    CASE path = "/health" -> config.health
      [] path = "/metrics" -> config.metrics
      [] path = "/sessions" -> config.sessions
      [] OTHER -> path \in {"/", "/api/latency"}

\* When a request is answered: the code says whether the endpoint exists and is
\* enabled; the list of sessions, read as JSON, has each session that was given and
\* not removed exactly once, with its latest state, whatever characters its texts
\* have; the health page is the engine's, with an uptime no older than the client's
\* connection.
AnswerIsTrue ==
    request # NoRequest =>
        LET r == Answered
            json == StringsIn(r.body)
        IN /\ r.status_code = IF request.method # "GET" THEN 405
                              ELSE IF IsOn(request.path) THEN 200 ELSE 404
           /\ r.status_code = 200 /\ request.path = "/sessions" =>
                 /\ json.complete
                 /\ Len(json.strings) = 2 * Cardinality(DOMAIN known)
                 /\ \A id \in DOMAIN known : \E i \in 1 .. Len(json.strings) :
                       i % 2 = 1 /\ json.strings[i] = id /\ json.strings[i + 1] = known[id].state
           /\ r.status_code = 200 /\ request.path = "/health" =>
                 /\ json = [strings |-> <<health.state>>, complete |-> TRUE]
                 /\ \E t \in client[serving].since .. secs : r.body[4] = ToString(t)

\* The loop waits for a client that says nothing.
Blocked ==
    /\ serving # Nobody /\ request = NoRequest
    /\ client[serving].at = "there" /\ client[serving].line = NoRequest

Asking(c) == client[c].at = "there" /\ client[c].line \notin {NoRequest, Blank}

\* Unless it is blocked for ever by a client that neither sends a line nor hangs
\* up, which nothing in the loop prevents, the server answers every client that has
\* sent its request.
EveryRequestAnswered ==
    []<>~Blocked => \A c \in Clients : Asking(c) ~> client[c].got # 0
=============================================================================
