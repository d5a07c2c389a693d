--------------------------- MODULE MessageProtocol ---------------------------
(***************************************************************************)
(* How pyMPI turns a Python object into at most two MPI messages           *)
(* (pyMPI_pack, pyMPI_unpack in pyMPI_util.c).  The first message is a     *)
(* fixed-size header: a type, the number payloads, and a prefix of         *)
(* PREFIXCHARS bytes.  A string or a pickle that does not fit the prefix   *)
(* travels whole in a second message, the body.                            *)
(***************************************************************************)
EXTENDS Naturals, Sequences

CONSTANTS
    PREFIXCHARS,   \* PYMPI_PREFIXCHARS, the capacity of the header's prefix
    Object         \* the Python objects programs send

Byte == {"a", "b"}
Garbage == "garbage"

(***************************************************************************)
(* The bytes of an int or a float are its payload slot, those of a string  *)
(* its characters, those of anything else its pickle.  An object of kind   *)
(* "unpicklable" is one for which cPickle.dumps raises.                    *)
(***************************************************************************)
Kind == {"int", "float", "string", "pickle", "unpicklable"}

ASSUME ProtocolAssumption ==
    /\ PREFIXCHARS \in Nat \ {0}
    /\ Object \subseteq [kind : Kind, bytes : Seq(Byte)]

-----------------------------------------------------------------------------

\* pyMPI_pack raises, and nothing has been sent, when the pickle fails.
Packable(o) == o.kind # "unpicklable"

\* int and float have payload slots of their own; only bytes can overflow.
InPayloadSlot(o) == o.kind \in {"int", "float"}

FitsPrefix(o) == Len(o.bytes) <= PREFIXCHARS

\* What pyMPI_pack writes into buffer1 for object o.
Header(o) ==
    LET prefixed == ~InPayloadSlot(o) /\ FitsPrefix(o)
        split    == ~InPayloadSlot(o) /\ ~FitsPrefix(o)
    IN  [message_type            |-> o.kind,
         payload                 |-> IF InPayloadSlot(o) THEN o.bytes ELSE <<>>,
         bytes_in_prefix         |-> IF prefixed THEN Len(o.bytes) ELSE 0,
         prefix                  |-> IF prefixed THEN o.bytes ELSE <<>>,
         bytes_in_second_message |-> IF split THEN Len(o.bytes) ELSE 0]

HasBody(header) == header.bytes_in_second_message # 0

\* Mutant of Unpack: a string is always taken from the prefix.
UnpackStringFromPrefix(header, body) ==
    [kind  |-> header.message_type,
     bytes |-> CASE header.message_type \in {"int", "float"} -> header.payload
                 [] header.message_type = "string" -> header.prefix
                 [] OTHER ->
                        IF HasBody(header) THEN body ELSE header.prefix]

(***************************************************************************)
(* pyMPI_unpack(&header, &part2): numbers come from the payload, a string  *)
(* from the prefix only if the prefix is not empty, a pickle from the body *)
(* only if there is one.  body is <<>> when no second message was          *)
(* received; reading zero bytes of it gives the empty string.              *)
(***************************************************************************)
Unpack(header, body) ==
    [kind  |-> header.message_type,
     bytes |-> CASE header.message_type \in {"int", "float"} -> header.payload
                 [] header.message_type = "string" ->
                        IF header.bytes_in_prefix # 0 THEN header.prefix ELSE body
                 [] OTHER ->
                        IF HasBody(header) THEN body ELSE header.prefix]

\* Does the object travel in two messages?
Split(o) == HasBody(Header(o))
==============================================================================
