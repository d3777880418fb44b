------------------------------- MODULE Codec -------------------------------
(***************************************************************************)
(* The durability boundary: what application values look like on the wire  *)
(* (codec.rs, Value of types.rs), what a handle makes of them (handle.rs), *)
(* and the ids that name them (ids.rs).                                    *)
(*                                                                         *)
(* A JSON value is a sequence of strings.  Its head tells what it is:      *)
(* "null", "empty" (the empty string), "b64" (a string of base64, followed *)
(* by the JSON text it encodes), "object" (an object, followed by its data *)
(* field if it has one), "call" (the TaskData of a promise, followed by    *)
(* the function), "error" (an encoded error, followed by its message), or  *)
(* a value of the application.  Encryption is undone where it is done, and *)
(* is left out, as headers are.                                            *)
(*                                                                         *)
(* An id is a sequence of its segments and separators.                     *)
(***************************************************************************)
EXTENDS Sequences
LOCAL INSTANCE SequencesExt

Null == <<"null">>
EmptyString == <<"empty">>
Garbled == <<"garbled">>        \* a decoding error
Canceled == <<"err", "canceled">>
StillPending == <<"err", "still_pending">>

-----------------------------------------------------------------------------
(* Codec *)

Encode(json) == IF json = Null THEN EmptyString ELSE <<"b64">> \o json

DecodeString(s) ==
    CASE s = EmptyString -> Null
      [] Head(s) = "b64" -> Tail(s)
      [] OTHER           -> Garbled
Decode(data) == IF data = Null THEN Null ELSE DecodeString(data)

EncodeError(message) == <<"error", message>>
DeserializeError(json) ==
    IF Head(json) = "error" THEN <<"err">> \o Tail(json) ELSE <<"err", "unknown">> \o json

-----------------------------------------------------------------------------
(* Value: its data is a set of at most one JSON value. *)

DataOrNull(value) == IF value = {} THEN Null ELSE CHOOSE d \in value : TRUE
Serialize(value) == IF value = {} THEN <<"object">> ELSE <<"object">> \o DataOrNull(value)
Deserialize(json) ==
    CASE json = Null            -> {}
      [] Head(json) = "object"  -> {Tail(json)} \ {<<>>}
      [] OTHER                  -> {json}

\* promises.rs: what a client hands in goes through the codec.
EncodeValue(value) == {Encode(DataOrNull(value))}

\* resonate.rs: what goes into a watch channel.
ValueToWire(value) == <<"object">> \o DataOrNull(value)

-----------------------------------------------------------------------------
(* ResonateHandle *)

DecodeValue(json) ==
    IF Head(json) # "object" \/ Len(json) = 1 THEN json
    ELSE IF Tail(json) = EmptyString \/ json[2] = "b64" THEN Decode(Tail(json))
    ELSE Tail(json)

\* What result returns for an entry of the subscriptions map.
DecodeResult(state, json) ==
    CASE state = "resolved"          -> <<"ok">> \o DecodeValue(json)
      [] state = "rejected"          -> DeserializeError(DecodeValue(json))
      [] state = "rejected_canceled" -> Canceled
      [] state = "rejected_timedout" -> <<"timeout">>
      [] OTHER                       -> StillPending

-----------------------------------------------------------------------------
(* Ids *)

OriginSep == ":"

ValidRootId(id) == id # <<>> /\ ~Contains(id, OriginSep)

\* The template "{{.id}}-{{.timestamp}}" of a schedule.
FiredId(name, timestamp) == name \o <<"-", timestamp>>
=============================================================================
