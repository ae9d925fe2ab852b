----------------------------- MODULE MCAtemCache ------------------------------
(***************************************************************************)
(* Two clients, and three parameters in two packets: gain is one number of *)
(* two bytes, so an addition carries from one byte to the other and wraps; *)
(* iso holds numbers of one byte; iso_old is dumped but never updated.  A  *)
(* datagram may hold commands for several parameters, or for none, and     *)
(* commands that fail.  An acknowledgement of the last packet of a session *)
(* that acknowledged none before is too far ahead.                         *)
(***************************************************************************)
EXTENDS AtemCache

CONSTANTS client1, client2, gain, iso, iso_old

TwoClients == {client1, client2}

Cameras        == {gain, iso, iso_old}
OnlyDumped     == {iso_old}
CameraDefaults == gain :> <<0, 1>> @@ iso :> <<1, 0>> @@ iso_old :> <<1, 1>>
CameraTypes    == gain :> 128 @@ iso :> 1 @@ iso_old :> 1
TwoChunks      == <<{gain}, {iso, iso_old}>>

Add(p, type, count, payload) ==
    [parameter |-> p, relative |-> TRUE, type |-> type, count |-> count, payload |-> payload]
Set(p, payload) ==
    [parameter |-> p, relative |-> FALSE, type |-> 1, count |-> 0, payload |-> payload]

\* A number is added.  Or one parameter is set and then added to as if its numbers were as
\* wide as those of another, among commands that update nothing: for an unknown parameter,
\* of an unknown type, for a hidden one.  Or one number more is added than there are, for a
\* camera that is not there either.
CameraDatagrams ==
    {<<Add(gain, 128, 1, <<0, 1>>)>>,
     <<Add(NoParameter, 1, 1, <<1, 1>>), Set(iso, <<0, 1>>), Add(gain, 5, 1, <<1, 1>>),
       Add(iso, 2, 1, <<1, 1>>), Set(iso_old, <<0, 0>>)>>,
     <<Add(iso, 1, 3, <<1, 1>>), Set(NoCamera, <<1, 1>>)>>}

===============================================================================
