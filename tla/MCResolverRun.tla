--------------------------- MODULE MCResolverRun ---------------------------
(* A small instance of ResolverRun: two adapters, two kernels, two labels,  *)
(* two runs over one output directory.                                      *)
EXTENDS ResolverRun

MCCompiled == <<"rust-gimli", "gdb-intel">>
MCLabels == {"vtune", "unitrace"}

Kernel(name) == [name |-> name, form |-> "plain", hasElf |-> TRUE]
Entry(name) == [name |-> name, form |-> "plain", ipList |-> "listed", reference |-> "rows"]

\* The invocation every other one differs from in a field or two.
Plain ==
  [options |-> "run", label |-> "vtune", kernels |-> <<Kernel("k1"), Kernel("k2")>>,
   manifestFile |-> "readable", manifest |-> <<Entry("k2"), Entry("k1")>>,
   referenceOption |-> FALSE, selection |-> <<"all">>]

Selections ==
  {<<"all">>, <<"gdb-intel">>, <<"gdb-intel", "rust-gimli", "gdb-intel">>}
RejectedSelections ==
  {<< >>, <<"all", "gdb-intel">>, <<"rust-gimli", "unknown">>}

MCInvocations ==
       {[Plain EXCEPT !.label = l, !.selection = s] : l \in MCLabels, s \in Selections}
  \union {[Plain EXCEPT !.selection = s] : s \in RejectedSelections}
  \union {[Plain EXCEPT !.options = o] : o \in {"help", "rejected"}}
  \union {[Plain EXCEPT !.kernels = k] :
            k \in {<< >>, <<[Kernel("k1") EXCEPT !.form = "invalid"]>>,
                   <<[Kernel("k1") EXCEPT !.form = "braces"], Kernel("k2")>>,
                   <<[Kernel("k1") EXCEPT !.hasElf = FALSE], Kernel("k2")>>,
                   <<Kernel("k1"), Kernel("k1")>>}}
  \union {[Plain EXCEPT !.manifest = m] :
            m \in {<< >>, <<Entry("k1")>>,
                   <<[Entry("k1") EXCEPT !.ipList = "unlisted"], Entry("k2")>>,
                   <<Entry("k1"), [Entry("k2") EXCEPT !.ipList = "unreadable"]>>,
                   <<[Entry("k1") EXCEPT !.reference = "no_rows"], Entry("k2")>>,
                   <<[Entry("k1") EXCEPT !.form = "invalid"], Entry("k2")>>,
                   <<[Entry("k1") EXCEPT !.reference = "unreadable"], Entry("k1"),
                     Entry("k2")>>}}
  \union {[Plain EXCEPT !.manifestFile = f, !.manifest = << >>, !.referenceOption = r] :
            f \in {"not_given", "unreadable"}, r \in BOOLEAN}
=============================================================================
