------------------------ MODULE MCTelemetryScheduler ------------------------
EXTENDS TelemetryScheduler

\* A literal that fits twice, and one that never does.
MCLiterals == {Token("1", 1), Token("wide", 12)}

\* Only the quotation mark is escaped, by one byte.
MCEscapes(s) == IF s = "\"" THEN 1 ELSE 0
MCStrings == {"\""}

=============================================================================
