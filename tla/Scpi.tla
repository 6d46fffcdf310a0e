-------------------------------- MODULE Scpi --------------------------------
(***************************************************************************)
(* ugpibd-scpi (src/bin/scpi.rs) and the clients it speaks with: HiSLIP    *)
(* (src/hislip/client.rs), VXI-11 (src/vxi11/client.rs over                *)
(* src/vxi11/rpc.rs) and Prologix.  The user types lines, a query prints   *)
(* the answer, and nobody reads a connection between two lines.            *)
(*                                                                         *)
(* The front-end is here what a client sees of it: requests are answered   *)
(* in order, the instrument may fail any of them, and HiSLIP pushes        *)
(* service requests on its second connection.  The instrument discards an  *)
(* answer nobody fetched when the next command reaches it (IEEE 488.2).    *)
(***************************************************************************)
EXTENDS Naturals, Sequences, SequencesExt

CONSTANTS
    MaxLines,   \* lines typed
    MaxPushes   \* service requests pushed

VARIABLES
    transport,  \* --transport
    spos,       \* where the program is
    typed,      \* the lines typed so far
    upstream,   \* requests: the synchronous connection, or the only one
    downstream, \* their answers
    aup, adown, \* the asynchronous connection of HiSLIP
    serving,    \* the front-end has the connections open
    output,     \* the line whose answer the instrument holds; 0 is none
    shown,      \* what the last line printed
    cut,        \* Prologix lost track: an operation failed, or a response
                \* ended before all of it had come
    pushes

scpiVars == <<transport, spos, typed, upstream, downstream, aup, adown,
              serving, output, shown, cut, pushes>>
link == <<upstream, downstream, aup, adown>>

(* Command text, as far as the hint looks at it.                           *)
Command == {<<"x">>, <<"x", "?">>, <<"x", "'", "?", "'">>}
Meta == {"read", "clear", "trigger", "remote", "local", "status"}
Line == Command \cup {<<"++", m>> : m \in Meta}

Number == Len(typed)
Text(n) == typed[n]

Waiting == {"sync_init", "async_init", "max_size", "create_link", "query",
            "writing", "reading", "generic", "response", "async"}

ScpiTypeOK ==
    /\ transport \in {"hislip", "vxi11", "prologix"}
    /\ spos \in Waiting \cup {"idle", "failed", "closed"}
    /\ typed \in Seq(Line) /\ Number <= MaxLines
    /\ serving \in BOOLEAN /\ cut \in BOOLEAN
    /\ output \in 0..MaxLines
    /\ shown.line \in 0..MaxLines /\ shown.of \in 0..MaxLines

-----------------------------------------------------------------------------
(* query_hint: a question mark outside string literals.  Both ends use it. *)

Scan(quote, b) == IF quote = "found" THEN quote
                  ELSE IF quote # "none" THEN IF b = quote THEN "none" ELSE quote
                  ELSE IF b \in {"'", "\""} THEN b
                  ELSE IF b = "?" THEN "found" ELSE "none"
query_hint(cmd) == FoldLeft(Scan, "none", cmd) = "found"

(* What handle_line asks.                                                  *)
IsQueryAnywhere(cmd) == \E i \in DOMAIN cmd : cmd[i] = "?"
IsQuery(cmd) == query_hint(cmd)
IsMeta(cmd) == Head(cmd) = "++"

-----------------------------------------------------------------------------
(* Requests and answers.  id is the MessageID or the xid.                  *)

Request(op, n) == [op |-> op, id |-> n]
Reply(type, n, of) == [type |-> type, id |-> n, of |-> of]

Nothing == [line |-> 0, of |-> 0]

ScpiInit ==
    /\ \/ /\ transport = "hislip" /\ spos = "sync_init"
          /\ upstream = <<Request("initialize", 0)>>
       \/ /\ transport = "vxi11" /\ spos = "create_link"
          /\ upstream = <<Request("create_link", 0)>>
       \/ /\ transport = "prologix" /\ spos = "idle"
          /\ upstream = <<Request("setting", 0), Request("setting", 0)>>  \* ++auto 0, ++addr
    /\ downstream = <<>> /\ aup = <<>> /\ adown = <<>>
    /\ typed = <<>> /\ serving = TRUE /\ output = 0
    /\ shown = Nothing /\ cut = FALSE /\ pushes = 0

-----------------------------------------------------------------------------
(* The front-end, as its client sees it.                                   *)

Answer(r) == downstream' = downstream \o r
NoAnswer == Answer(<<>>)

(* HiSLIP executes a message whole: the write, and the read if the hint    *)
(* calls for one.  A failure of either is a non-fatal Error.               *)
HislipData(n) ==
    \/ output' = 0 /\ ~query_hint(Text(n)) /\ NoAnswer
    \/ output' = 0 /\ query_hint(Text(n))
       /\ \/ Answer(<<Reply("DataEnd", n, n)>>)
          \/ Answer(<<Reply("Data", n, n), Reply("DataEnd", n, n)>>)
    \/ output' \in {output, IF query_hint(Text(n)) THEN n ELSE 0}
       /\ Answer(<<Reply("Error", 0, n)>>)

HislipServes(r) ==
    CASE r.op = "initialize" -> /\ \/ Answer(<<Reply("InitializeResponse", 0, 0)>>)
                                   \/ Answer(<<Reply("FatalError", 0, 0)>>)
                                /\ UNCHANGED output
      [] r.op = "data" -> HislipData(r.id)
      [] r.op = "trigger" -> NoAnswer /\ UNCHANGED output

(* A write of a query leaves an answer with the instrument; a read fetches *)
(* what is there.                                                          *)
Vxi11Serves(r) ==
    \/ Answer(<<Reply("error", r.id, 0)>>) /\ UNCHANGED output
    \/ r.op = "device_read" /\ output # 0 /\ Answer(<<Reply("success", r.id, output)>>) /\ output' = 0
    \/ /\ r.op = "device_write" /\ Answer(<<Reply("success", r.id, 0)>>)
       /\ output' = IF query_hint(Text(r.id)) THEN r.id ELSE 0
    \/ /\ r.op \in {"create_link", "generic"} /\ Answer(<<Reply("success", r.id, r.id)>>)
       /\ UNCHANGED output

(* Prologix answers nothing when the bus fails.  An answer of the          *)
(* instrument is a line, or comes in two segments, the first of which may  *)
(* end in a newline; the last may not.                                     *)
Segments(of) == {<<Reply("line", 0, of)>>, <<Reply("part", 0, of)>>,
                 <<Reply("line", 0, of), Reply("line", 0, of)>>}

PrologixServes(r) ==
    \/ NoAnswer /\ UNCHANGED output /\ cut' = (cut \/ r.op # "setting")
    \/ /\ UNCHANGED cut
       /\ \/ r.op = "forward" /\ NoAnswer /\ output' = IF query_hint(Text(r.id)) THEN r.id ELSE 0
          \/ r.op = "++read" /\ output # 0 /\ output' = 0 /\ \E s \in Segments(output) : Answer(s)
          \/ r.op = "++spoll" /\ Answer(<<Reply("line", 0, r.id)>>) /\ UNCHANGED output

ServeSync ==
    /\ serving /\ upstream # <<>> /\ upstream' = Tail(upstream)
    /\ LET r == Head(upstream)
       IN  CASE transport = "hislip" -> HislipServes(r) /\ UNCHANGED cut
             [] transport = "vxi11" -> Vxi11Serves(r) /\ UNCHANGED cut
             [] transport = "prologix" -> PrologixServes(r)
    /\ UNCHANGED <<transport, spos, typed, aup, adown, serving, shown, pushes>>

(* The asynchronous loop answers every request, failed or not.             *)
ServeAsync ==
    /\ serving /\ aup # <<>> /\ aup' = Tail(aup)
    /\ adown' = Append(adown, Reply(Head(aup).op, 0, Head(aup).id))
    /\ UNCHANGED <<transport, spos, typed, upstream, downstream, serving, output, shown, cut, pushes>>

(* srq_forwarder and async_pusher, once the asynchronous loop is running.  *)
Push ==
    /\ serving /\ transport = "hislip" /\ spos # "sync_init" /\ pushes < MaxPushes
    /\ spos = "async_init" => aup = <<>>
    /\ pushes' = pushes + 1 /\ adown' = Append(adown, Reply("AsyncServiceRequest", 0, 0))
    /\ UNCHANGED <<transport, spos, typed, upstream, downstream, aup, serving, output, shown, cut>>

(* The daemon stops, or closes the connection.                             *)
ServerCloses ==
    /\ serving /\ serving' = FALSE
    /\ upstream' = <<>> /\ aup' = <<>>
    /\ UNCHANGED <<transport, spos, typed, downstream, adown, output, shown, cut, pushes>>

-----------------------------------------------------------------------------
(* handle_line: what a line sends, on which connection, and where the      *)
(* program waits then.  HiSLIP has no read, and Prologix no remote: those  *)
(* are refused, as is a meta-command that there is not.                    *)

Sends(ops, next) == [conn |-> "sync", ops |-> ops, next |-> next]
SendsAsync(op) == [conn |-> "async", ops |-> <<op>>, next |-> "async"]
Refuses == Sends(<<>>, "idle")

HislipLine(l) ==
    IF ~IsMeta(l) THEN Sends(<<"data">>, IF IsQuery(l) THEN "query" ELSE "idle")
    ELSE CASE l[2] = "trigger" -> Sends(<<"trigger">>, "idle")
           [] l[2] \in {"clear", "remote", "local", "status"} -> SendsAsync(l[2])
           [] OTHER -> Refuses

Vxi11Line(l) ==
    IF ~IsMeta(l) THEN Sends(<<"device_write">>, "writing")
    ELSE CASE l[2] = "read" -> Sends(<<"device_read">>, "reading")
           [] l[2] \in {"clear", "trigger", "remote", "local", "status"} -> Sends(<<"generic">>, "generic")
           [] OTHER -> Refuses

PrologixLine(l) ==
    IF ~IsMeta(l) THEN IF IsQuery(l) THEN Sends(<<"forward", "++read">>, "response")
                                     ELSE Sends(<<"forward">>, "idle")
    ELSE CASE l[2] = "read" -> Sends(<<"++read">>, "response")
           [] l[2] = "status" -> Sends(<<"++spoll">>, "response")
           [] l[2] \in {"clear", "trigger", "local"} -> Sends(<<"setting">>, "idle")
           [] OTHER -> Refuses

Does(l) == CASE transport = "hislip" -> HislipLine(l)
             [] transport = "vxi11" -> Vxi11Line(l)
             [] transport = "prologix" -> PrologixLine(l)

(* What is written to a connection that was closed goes nowhere, or fails, *)
(* and an I/O error ends the program.                                      *)
Written(does, n) ==
    LET requests == [i \in DOMAIN does.ops |-> Request(does.ops[i], n)]
    IN  /\ upstream' = IF serving /\ does.conn = "sync" THEN upstream \o requests ELSE upstream
        /\ aup' = IF serving /\ does.conn = "async" THEN aup \o requests ELSE aup
        /\ \/ spos' = does.next
           \/ ~serving /\ does.ops # <<>> /\ spos' = "closed"
        /\ UNCHANGED <<downstream, adown>>

handle_typed(l) ==
    /\ spos = "idle" /\ Number < MaxLines
    /\ typed' = Append(typed, l)
    /\ shown' = Nothing
    /\ Written(Does(l), Number + 1)
    /\ UNCHANGED <<transport, serving, output, cut, pushes>>

-----------------------------------------------------------------------------
(* Answers.  Prints(of) and Ends(at) finish the line.                      *)

Prints(of) == shown' = [line |-> Number, of |-> of] /\ spos' = "idle"
Ends(at) == spos' = at /\ UNCHANGED shown
Quiet == UNCHANGED <<upstream, aup>>

AnyAnswer(m) == TRUE
OwnAnswer(m) == m.id = Number

(* The query of the HiSLIP client.                                         *)
QueryReply(m) ==
    CASE m.type = "Data" /\ OwnAnswer(m) -> Ends("query")
      [] m.type = "DataEnd" /\ OwnAnswer(m) -> Prints(m.of)
      [] OTHER -> Ends("idle")

(* A call of the VXI-11 client; query writes, then reads.                  *)
CallReply(m) ==
    IF ~OwnAnswer(m) \/ m.type = "error" THEN Ends("idle") /\ Quiet
    ELSE IF spos = "writing" /\ IsQuery(Text(Number))
    THEN Ends("reading") /\ upstream' = Append(upstream, Request("device_read", Number)) /\ UNCHANGED aup
    ELSE IF spos = "writing" THEN Ends("idle") /\ Quiet
    ELSE Prints(m.of) /\ Quiet

SyncReply ==
    /\ downstream # <<>> /\ spos \in {"sync_init", "create_link", "query", "writing", "reading", "generic"}
    /\ downstream' = Tail(downstream)
    /\ LET m == Head(downstream)
       IN  CASE spos = "sync_init" ->
                  IF m.type = "InitializeResponse"
                  THEN Ends("async_init") /\ aup' = Append(aup, Request("async_init", 0)) /\ UNCHANGED upstream
                  ELSE Ends("failed") /\ Quiet
             [] spos = "create_link" -> Ends(IF m.type = "success" THEN "idle" ELSE "failed") /\ Quiet
             [] spos = "query" -> QueryReply(m) /\ Quiet
             [] OTHER -> CallReply(m)
    /\ UNCHANGED <<transport, typed, adown, serving, output, cut, pushes>>

(* async_request skips service requests; connect does not.                 *)
AsyncReply ==
    /\ adown # <<>> /\ spos \in {"async_init", "max_size", "async"}
    /\ adown' = Tail(adown)
    /\ LET m == Head(adown)
       IN  CASE spos = "async_init" ->
                  IF m.type = "async_init"
                  THEN Ends("max_size") /\ aup' = Append(aup, Request("max_size", 0)) /\ UNCHANGED upstream
                  ELSE Ends("failed") /\ Quiet
             [] spos = "max_size" -> Ends(IF m.type = "max_size" THEN "idle" ELSE "failed") /\ Quiet
             [] spos = "async" ->
                  /\ IF m.type = "AsyncServiceRequest" THEN Ends("async")
                     ELSE IF m.type = Text(Number)[2] THEN Prints(m.of) ELSE Ends("idle")
                  /\ Quiet
    /\ UNCHANGED <<transport, typed, downstream, serving, output, cut, pushes>>

(* read_response takes what has come, until that ends in a newline, the    *)
(* connection is closed or nothing came for the read timeout.              *)
Outstanding == \E i \in DOMAIN upstream : upstream[i].op \in {"++read", "++spoll"}

Segment ==
    /\ spos = "response" /\ downstream # <<>>
    /\ \E k \in DOMAIN downstream :
          /\ downstream' = SubSeq(downstream, k + 1, Len(downstream))
          /\ IF downstream[k].type = "line"
             THEN /\ spos' = "idle"
                  /\ cut' = (cut \/ k < Len(downstream) \/ Outstanding)
             ELSE UNCHANGED <<spos, cut>>
    /\ shown' = IF shown = Nothing THEN [line |-> Number, of |-> Head(downstream).of] ELSE shown
    /\ UNCHANGED <<transport, typed, upstream, aup, adown, serving, output, pushes>>

ReadTimeout ==
    /\ spos = "response" /\ downstream = <<>>
    /\ spos' = "idle" /\ cut' = (cut \/ Outstanding)
    /\ UNCHANGED <<transport, typed, link, serving, output, shown, pushes>>

(* The end of a connection is an I/O error to HiSLIP; to VXI-11 it is one  *)
(* or the end of the call, and to read_response the end of the answer.     *)
Eof ==
    /\ ~serving /\ spos \in Waiting \ {"response"}
    /\ IF spos \in {"async_init", "max_size", "async"} THEN adown = <<>> ELSE downstream = <<>>
    /\ \/ Ends(IF spos \in {"sync_init", "async_init", "max_size", "create_link"} THEN "failed" ELSE "closed")
       \/ transport = "vxi11" /\ spos # "create_link" /\ Ends("idle")
    /\ UNCHANGED <<transport, typed, link, serving, output, cut, pushes>>

ClientStep == SyncReply \/ AsyncReply \/ Segment \/ ReadTimeout \/ Eof

ScpiNext == ClientStep \/ ServeSync \/ ServeAsync \/ Push \/ ServerCloses \/ \E l \in Line : handle_typed(l)

(* The program runs and the front-end goes on answering: its operations    *)
(* have their own bounds, and a lock somebody holds is given back.         *)
ScpiFairness == WF_scpiVars(ClientStep) /\ WF_scpiVars(ServeSync) /\ WF_scpiVars(ServeAsync)

ScpiSpec == ScpiInit /\ [][ScpiNext]_scpiVars /\ ScpiFairness

-----------------------------------------------------------------------------
(* The property.                                                           *)

(* What a query or a status request prints is its own answer, whatever     *)
(* failed before it on this connection and whatever was left unread there. *)
(* Prologix answers carry no number and its failures are silent, so there  *)
(* it ends with the first operation that fails, and the first response     *)
(* that comes after the read timeout or in pieces of which one ends in a   *)
(* newline.                                                                *)
PrintsOwnAnswer ==
    shown # Nothing /\ Text(shown.line) # <<"++", "read">> => shown.of = shown.line \/ cut
=============================================================================
