--------------------------- MODULE MCCommandServer ---------------------------
EXTENDS CommandServer, FiniteSets

TooLong == "a_name_too_long"

MCEscapes(s) == IF s = "\"" THEN 1 ELSE 0

Identity(id, version, firmware) ==
    [board_id |-> id, protocol_version |-> version, firmware_version |-> firmware]

\* A good identity, and two refused after a part of them was stored.
MCIdentities ==
    {Identity("b1", "1", "f"), Identity("\"", Null, "f"), Identity(TooLong, "1", "f")}

Arg(name, type) == [name |-> name, type |-> type]
Spec0(name, args) ==
    [name |-> name, args |-> args, args_null |-> FALSE, blocked_by_estop |-> TRUE,
     handler |-> "app"]

MCCommandSpecs ==
    {Spec0("go", <<Arg("x", "int")>>),
     Spec0("set", <<Arg("x", "float"), Arg("y", "string")>>),
     Spec0("set", <<Arg("x", "int"), Arg("x", "bool")>>),
     Spec0("set", <<Arg("x", "other")>>),
     Spec0("set", <<Arg("", "int")>>),
     Spec0("set", <<Arg("x", "int"), Arg("y", "int"), Arg("z", "int")>>),
     Spec0("", <<>>), Spec0(TooLong, <<>>),
     [Spec0("set", <<Arg("x", "int")>>) EXCEPT !.args_null = TRUE],
     [Spec0("go", <<>>) EXCEPT !.handler = Null]}

\* Lists refused after some of their fields were stored: by the type of the
\* third, and as a repetition.
MCTelemetryLists == {Null, <<Arg("u", "int"), Arg("t", "bool"), Arg("v", "other")>>}
MCStateLists == {<<Arg("t", "float"), Arg("t", "bool")>>}

MCNetworkConfigs ==
    {[listen_port |-> 1, mode |-> "Dhcp", ip |-> 0],
     [listen_port |-> 0, mode |-> "Dhcp", ip |-> 0],
     [listen_port |-> 1, mode |-> "StaticIpv4", ip |-> 0],
     [listen_port |-> 1, mode |-> "other", ip |-> 1]}

MCTimestamps == {Token("0", 1), Token("max", 20)}
MCWidest == Token("max", 20)
MCBoardProcUs == Token("7", 1)

-----------------------------------------------------------------------------
MCArgs ==
    {<<>>} \cup [{"x"} -> JsonKind]
    \cup {[x |-> "int", y |-> "string"], [x |-> "int", z |-> "int"], [y |-> "string"],
          [x |-> "null", y |-> "string"]}

Good(type) ==
    [shape |-> "object", text |-> <<>>, type |-> type, seq |-> "ok", controller_ts |-> "ok",
     source |-> "controller", target |-> "b1", command |-> "go", args |-> <<>>,
     copy_fits |-> TRUE]

\* The values each field takes besides the good one.
EnvelopeDeviations ==
    {<<"shape", "not_json">>, <<"shape", "not_object">>, <<"type", "other">>, <<"seq", "bad">>,
     <<"source", "b1">>, <<"source", Absent>>, <<"source", WrongType>>,
     <<"target", "\"">>, <<"target", TooLong>>, <<"target", Absent>>, <<"target", WrongType>>,
     <<"copy_fits", FALSE>>}

CommandDeviations ==
    {<<"controller_ts", Absent>>, <<"controller_ts", WrongType>>,
     <<"command", "set">>, <<"command", "get_counters">>, <<"command", Absent>>,
     <<"command", WrongType>>, <<"args", Absent>>, <<"args", WrongType>>}
    \cup {<<"args", a>> : a \in MCArgs}

With(line, d) == [f \in DOMAIN line |-> IF f = d[1] THEN d[2] ELSE line[f]]

Variants(type, deviations) == {With(With(Good(type), d), e) : d, e \in deviations}

\* Lines that differ from a good one in one or two fields.
Structures ==
    Variants("command", EnvelopeDeviations \cup CommandDeviations)
    \cup Variants("estop", EnvelopeDeviations) \cup Variants("heartbeat", EnvelopeDeviations)

\* Bytes on either side of every boundary of the encoding.
Boundary == {\h7F, \h80, \hBF, \hC0, \hC1, \hC2, \hDF, \hE0, \hE1, \hEC, \hED, \hEE, \hEF,
             \hF0, \hF1, \hF3, \hF4, \hF5}
Second == {\h7F, \h80, \h8F, \h90, \h9F, \hA0, \hBF, \hC0}

Texts ==
    {<<b>> : b \in Boundary} \cup (Boundary \X {\h7F, \h80, \hBF, \hC0})
    \cup ({\hE0, \hE1, \hED, \hEF} \X Second \X {\h80, \hC0})
    \cup ({\hF0, \hF1, \hF4, \hF5} \X Second \X {\h80, \hC0} \X {\hBF})

MCLines == Structures \cup {[Good("heartbeat") EXCEPT !.text = t] : t \in Texts}

-----------------------------------------------------------------------------
\* What a handler writes: nothing, a little, as much as fits the result but not
\* the line, too much, and what the writer refuses.
MCHandlerWrites ==
    {<<>>, <<<<"a", "literal", Token("1", 1)>>>>,
     <<<<"a", "literal", Token("1", 1)>>, <<"b", "string", "\"">>>>,
     <<<<"a", "literal", Token("wide", 9)>>>>,
     <<<<"a", "literal", Token("1", 1)>>, <<"b", "literal", Token("wide", 9)>>>>,
     <<<<"a", "double", NonFinite>>, <<"b", "literal", Token("1", 1)>>>>,
     <<<<"a", "string", Null>>, <<"b", "literal", Token("1", 1)>>>>,
     <<<<"a", "chars", Null>>, <<"b", "chars", "\"">>>>,
     <<<<"board_proc_us", "literal", Token("1", 1)>>, <<Null, "literal", Token("1", 1)>>>>}

-----------------------------------------------------------------------------
\* What a call reported has no effect on what follows.
View == <<registryVars, facadeVars>>

=============================================================================
