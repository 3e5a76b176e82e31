------------------------------- MODULE MCGate -------------------------------
EXTENDS Gate
\* A contract (two of them), its lock, a source that is also executable or has
\* other line ends, a link to it or to nothing, and what the first task makes.
MCPaths == {"sykli.json", "sykli.lock", "source", "link", "made"}
MCBytes == {"K1", "K2", "pin1", "pin2", "lf", "crlf", "other", "to source", "to nothing"}
MCClean == [b \in MCBytes |-> IF b = "crlf" THEN "lf" ELSE b]
MCSmudge == [b \in MCBytes |-> IF b = "lf" THEN "crlf" ELSE b]
MCTarget == [b \in MCBytes |-> IF b = "to source" THEN "source" ELSE "elsewhere"]
MCContracts == [
    K1 |-> <<[name |-> "make", inputs |-> {"source"}, outputs |-> {"made"}],
             [name |-> "use", inputs |-> {"link", "made"}, outputs |-> {}]>>,
    K2 |-> <<[name |-> "use", inputs |-> {"link"}, outputs |-> {}]>>]
MCPins == [b \in MCBytes |-> IF b = "pin1" THEN "K1" ELSE "K2"]
MCContents == [p \in MCPaths |->
    CASE p = "sykli.json" -> {File("K1", FALSE), File("K2", FALSE)}
      [] p = "sykli.lock" -> {File("pin1", FALSE), File("pin2", FALSE)}
      [] p = "source" -> {File("lf", FALSE), File("crlf", FALSE), File("lf", TRUE),
                          File("other", FALSE), Nothing}
      [] p = "link" -> {Link("to source"), Link("to nothing")}
      [] p = "made" -> {}]
=============================================================================
