---------------------------- MODULE CameraControl -----------------------------
(***************************************************************************)
(* Camera control parameters as the proxy's cache holds them, and what a   *)
(* received command does to one (atem_cache_update_cc() in                 *)
(* proxy/atem_cache.c).                                                    *)
(*                                                                         *)
(* A parameter's payload is a row of bytes that holds a few numbers, most  *)
(* significant byte first.  A command either replaces the payload or adds  *)
(* to its first numbers; how wide a number is depends on the type in the   *)
(* command.  The C code computes in int and stores the low bytes: numbers  *)
(* wrap.  (int32_t sums that overflow are undefined in C; they wrap in     *)
(* every build of this code, as both operands are loaded from memory.)     *)
(*                                                                         *)
(* A command without effect (another name, another length, a parameter the *)
(* cache does not know) is one for NoParameter.  Neither the camera nor    *)
(* how many numbers are added is checked: a command may fail an assertion  *)
(* or write to memory behind what it is about (Fails).                     *)
(***************************************************************************)
EXTENDS Integers, SequencesExt

CONSTANTS
    Params,           \* parameters of the cameras: struct cc_cmd in struct source_data
    NoParameter,      \* any other parameter
    NoCamera,         \* any parameter of camera 0, or of one behind the last camera
    Hidden,           \* parameters that are dumped to clients, but no command reaches
    Base,             \* values of a byte (256 of them)
    PayloadLen        \* bytes of a payload (8 of them)

ASSUME CameraControlAssumption ==
    /\ Params \cap {NoParameter, NoCamera} = {} /\ NoParameter # NoCamera
    /\ Hidden \subseteq Params
    /\ Base \in Nat \ {0} /\ PayloadLen \in Nat

Payloads == [1..PayloadLen -> 0..Base - 1]

\* Bytes of a number; 0x80 is the fixed point type.
Types == [type \in {1, 2, 3, 128} |-> CASE type = 1 -> 1 [] type = 3 -> 4 [] OTHER -> 2]

\* How many values so many bytes have: the widest number has four.
Values[n \in 0..4] == IF n = 0 THEN 1 ELSE Base * Values[n - 1]

Number(bytes) ==
    LET number[k \in 0..Len(bytes)] == IF k = 0 THEN 0 ELSE number[k - 1] * Base + bytes[k]
    IN  number[Len(bytes)]

\* Mutation: a sum does not wrap.
BytesUnwrapped(n, size) == [k \in 1..size |-> IF k = 1 THEN n \div Values[size - 1]
                                             ELSE (n \div Values[size - k]) % Base]

Bytes(n, size) == [k \in 1..size |-> (n \div Values[size - k]) % Base]
Element(p, size, i) == SubSeq(p, i * size + 1, (i + 1) * size)

\* Mutation: every byte is a number of its own.
AddedBytewise(cached, received, size, count) ==
    [k \in 1..PayloadLen |-> IF k > count * size THEN cached[k]
                             ELSE (cached[k] + received[k]) % Base]

\* The payload after the first count numbers of a relative command were added.
Added(cached, received, size, count) ==
    LET sum(i) == Number(Element(cached, size, i)) + Number(Element(received, size, i))
    IN  [k \in 1..PayloadLen |->
            IF k > count * size THEN cached[k]
            ELSE Bytes(sum((k - 1) \div size), size)[((k - 1) % size) + 1]]

\* A command for a parameter: whatever a client sends.
Commands == [parameter : Params \cup {NoParameter, NoCamera}, relative : BOOLEAN,
             type : Nat, count : Nat, payload : Payloads]

\* cc_param_get()
Found(parameter) == parameter \in Params \ Hidden

\* The parameter is found, and the type of a relative command is known.
Effective(cc) ==
    /\ Found(cc.parameter)
    /\ cc.relative => cc.type \in DOMAIN Types

\* The assertion on the camera fails (without assertions camera 0 has no parameter), the
\* parameter is looked for behind the cameras, or more is added than the payload holds.
Fails(cc) ==
    \/ cc.parameter = NoCamera
    \/ Effective(cc) /\ cc.relative /\ cc.count * Types[cc.type] > PayloadLen

Updated(cached, cc) ==
    IF cc.relative THEN Added(cached, cc.payload, Types[cc.type], cc.count) ELSE cc.payload

===============================================================================
