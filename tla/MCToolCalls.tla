---------------------------- MODULE MCToolCalls ----------------------------
(* The tools of both backends, as tables for ToolCalls. *)
EXTENDS ToolCalls

Ida == INSTANCE IdaTools
Ghidra == INSTANCE GhidraTools

MCTools == [ida |-> Ida!Table, ghidra |-> Ghidra!Table]

MCParts == Ida!DatabaseParts
MCExempt == {"undo", "redo", "analyze_database", "reanalyze_range",
             "open_database", "save_database", "close_database"}
MCTransactional == {"ghidra"}
MCSplitting == {"set_function_type"}
MCPartial == {"set_function_type", "reanalyze_range", "create_function", "make_code"}
\* A declaration with errors, some of whose types are registered all the same.
MCMisreporting == {"parse_type_declaration"}
=============================================================================
