----------------------------- MODULE MCSession -----------------------------
(***************************************************************************)
(* Sessions of up to three lines.  The first line tends to set something   *)
(* up, the second to change it, and the third to use it or to leave.       *)
(***************************************************************************)
EXTENDS Session

Do(what)      == [do |-> what]
On(what, c)   == [do |-> what, on |-> c]
Raises1       == [do |-> "raise", bad |-> {1}]
Write(c, bad, badFile) == [do |-> "write", on |-> c, bad |-> bad, badFile |-> badFile]
Queue(c, bad, out, err) == [do |-> "queue", on |-> c, bad |-> bad, stdout |-> out, stderr |-> err]
Dup(to)       == [do |-> "dup", on |-> "WORLD", to |-> to]
MakeOf(kind, a, b, s)  == [do |-> "create", on |-> "WORLD", to |-> "c",
                           arg |-> [kind |-> kind, start |-> a, stop |-> b, step |-> s]]
Cart(dims, periods)    == [do |-> "cart", on |-> "WORLD", to |-> "c",
                           arg |-> [dims |-> dims, periods |-> periods]]
Wrap(c)       == [do |-> "wrap", on |-> c, to |-> "d", persist |-> FALSE]
Keep(c, flag) == [do |-> "persistent", on |-> c, persist |-> flag]

SetUp ==
    {Dup("c"), MakeOf("slice", 1, 1, Omitted), MakeOf("slice", 0, 1, Omitted),
     MakeOf("slice", Omitted, Omitted, -1), Cart(<<1>>, <<>>), Cart(<<3>>, <<>>),
     Queue("WORLD", {}, "file", "absent"), Queue("WORLD", {1}, "file", "file"),
     Raises1, Interrupt, Do("caughtExit"), Do("finalize")}

Change ==
    {Do("print"), Wrap("c"), Wrap("WORLD"), Keep("c", FALSE), On("free", "c"),
     Write("c", {}, FALSE), Write("WORLD", {1}, FALSE), Write("WORLD", {}, TRUE),
     Queue("WORLD", {}, "null", "none"), MakeOf("slice", 1, 0, Omitted),
     MakeOf("item", 1, 0, 0), MakeOf("none", 0, 0, 0)}

Use ==
    {Do("print"), Write("WORLD", {}, FALSE), Queue("WORLD", {}, "absent", "absent"),
     Queue("c", {}, "none", "absent"), Dup("c"), On("del", "d"), On("free", "d"),
     Do("finalize"), Do("exit"), Do("raiseSystemExit"), Do("crash"), Do("abort")}

MCJobs == {<<"prompt", TRUE>>, <<"script", TRUE>>, <<"feeder", FALSE>>}

MCLines == <<SetUp, Change, Use>>

\* Objects that only some ranks have, or have a communicator of
Partial == {MakeOf("slice", 0, 1, Omitted), MakeOf("item", 1, 0, 0), Cart(<<1>>, <<>>)}
Some(before, lines) == \E i \in 1..Len(before) : before[i] \in lines

\* What is left out is what the module MCSessionClaims and README.md are about.
MCFollows(before, l) ==
    /\ l.do = "queue" /\ l.on = "c" => ~Some(before, Partial)
    /\ l = On("free", "d") => ~Some(before, {Wrap("WORLD")})
    /\ l.do \in {"exit", "raiseSystemExit"} => ~Some(before, {Do("finalize")})
    /\ l = Do("finalize") => ~Some(before, {Do("caughtExit")})
    /\ l = Do("raiseSystemExit") => Some(before, {Do("caughtExit")})
=============================================================================
