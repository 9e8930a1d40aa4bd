--------------------------- MODULE MCPrintSession ---------------------------
(* Requests for PrintSession: what a command line may ask for.             *)
EXTENDS PrintSession

Asks(inputs, max, to, backup, present, options) ==
  [names |-> inputs, max |-> max, to |-> to, backup |-> backup, present |-> {File("a"), File("out")} \cup present,
   toc |-> "toc" \in options, debug |-> "debug" \in options, pages |-> "pages" \in options, macro |-> "macro" \in options]

MCRequests ==
  {Asks({"a", Stdin, "missing"}, 2, "pipe", "none", {}, o) : o \in {{}, {"toc", "pages"}, {"debug", "macro"}}}
  \cup {Asks({"a"}, 3, "stdout", "none", {}, o) : o \in {{"macro", "pages"}, {"debug"}}}
  \cup {Asks({"a", "out"}, 2, "file", b, p, {}) : b \in {"none", "simple", "existing", "numbered"},
                                                p \in {{}, {Backup(0)}, {Backup(1), Backup(0)}}}
  \cup {Asks({"out", Stdin}, 2, "file", "simple", {}, {"debug"})}
=============================================================================
