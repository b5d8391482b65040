---------------------------- MODULE RestRequests ----------------------------
(***************************************************************************)
(* What becomes of a request before and after the message bus: which       *)
(* handler takes it, what the parser makes of its body, and with which     *)
(* status each way of ending is answered.                                  *)
(*                                                                         *)
(* A request is a method, a target and a body.  A body is NoObject, text   *)
(* that is no JSON or no JSON object, or a record: field -> the kind of    *)
(* its value.                                                              *)
(***************************************************************************)
CONSTANT NoObject

\* What a field may hold; "int64" is an integer that does not fit an int, "date" a string that
\* is an ISO 8601 time.
Kinds == {"missing", "null", "string", "date", "int", "int64", "other"}

Handlers == {"Allocate", "AddBatch", "AllocationsView", "Ping", "Options", "NotFound"}

\* Method, target and handler.  The targets of GET are prefixes: with an order, without one.
Routes == {<<"POST", "/allocate", "Allocate">>,
           <<"POST", "/add_batch", "AddBatch">>,
           <<"GET", "/allocations/", "AllocationsView">>,
           <<"GET", "/allocations/{orderid}", "AllocationsView">>,
           <<"GET", "/ping", "Ping">>}

\* Preflights are answered whatever they ask for.
HandlerOf(request) ==
    LET routed == {h \in Handlers : <<request.method, request.target, h>> \in Routes}
    IN  CASE request.method = "OPTIONS"                    -> "Options"
          [] request.method # "OPTIONS" /\ routed # {}     -> CHOOSE h \in routed : TRUE
          [] request.method # "OPTIONS" /\ routed = {}     -> "NotFound"

-----------------------------------------------------------------------------
(* Parsers *)

Strings == [Allocate            |-> {"orderid", "sku"},
            AddBatch            |-> {"ref", "sku"},
            ChangeBatchQuantity |-> {"batchref"}]

\* What FromJson checks: a field that is missing, null or of another type is an invalid argument.
IsValid(command, body) ==
    /\ \A f \in Strings[command] : body[f] \in {"string", "date"}
    /\ body.qty \in {"int", "int64"}
    /\ command = "AddBatch" => body.eta \in {"missing", "null", "date"}

\* A body without an object fails before FromJson, in the REST handlers outside of their try
\* block; the conversion of the quantity comes after all checks.
Parse(command, body) ==
    CASE body = NoObject -> "no object"
      [] OTHER -> IF ~IsValid(command, body) THEN "invalid"
                  ELSE IF body.qty = "int64" THEN "out of range" ELSE "command"

\* What a handler does first: it ends at once, or goes on to a command or the query.
Read(request) ==
    LET handler == HandlerOf(request)
    IN  CASE handler \in {"Allocate", "AddBatch"} -> Parse(handler, request.body)
          [] handler = "AllocationsView" -> IF request.target = "/allocations/" THEN "no order" ELSE "query"
          [] OTHER -> "done"

-----------------------------------------------------------------------------
(* Answers *)

\* "serialization": another transaction has written the row; "version": the repository's own
\* check found that.
PocoExceptions ==
    {"no object", "out of range", "exhausted", "session closed", "database", "serialization"}
RuntimeErrors == {"no pool", "no handler", "version"}
OtherExceptions == {"invalid", "no order", "unknown sku"}

Endings == PocoExceptions \cup RuntimeErrors \cup OtherExceptions \cup {"done", "no rows"}

Success == [Allocate |-> "ACCEPTED", AddBatch |-> "CREATED", AllocationsView |-> "OK",
            Ping |-> "OK", Options |-> "OK", NotFound |-> "NOT_FOUND"]

Status(h, how) ==
    CASE how = "done"             -> Success[h]
      [] how = "no rows"          -> "NOT_FOUND"
      [] how \in PocoExceptions   -> "INTERNAL_SERVER_ERROR"
      [] how \in RuntimeErrors    -> IF h = "Allocate" THEN "CONFLICT" ELSE "BAD_REQUEST"
      [] how \in OtherExceptions  -> "BAD_REQUEST"
=============================================================================
