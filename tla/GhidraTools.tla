---------------------------- MODULE GhidraTools ----------------------------
(* What each tool of the Ghidra backend does to the program and its
   undo history.  A tool resolves and validates, then edits inside a
   transaction; an exception in the transaction rolls it back. *)
EXTENDS ToolSteps

\* An address or a symbol, a function by its address, a byte range.
resolve_address == Check
resolve_function == resolve_address ++ Check
check_range_in_memory == Check

\* Bytes are written over whatever was defined there.
write_memory ==
  check_range_in_memory ++ InTransaction(Edit("code") ++ Edit("bytes"))

\* Ghidra runs a command and only reports that it failed.
Command(part) == Nothing | Edit(part)

\* An error of the engine is swallowed.
Suppressed(part) == Nothing | Put(part)

\* Auto-analysis in its own transaction, for a full pass another one that marks
\* the program analyzed; then the history is dropped.
run_analysis == InTransaction(Edit("analysis"))
mark_analyzed == InTransaction(Put("analysis"))
analyze(mark) == run_analysis ++ mark ++ ClearHistory

------------------------------------------------------------- \* analysis.py
reanalyze_range ==
  Mutate(resolve_address ++ InTransaction(Command("code"))
           ++ analyze(Nothing))

analyze_database == Mutate(analyze(mark_analyzed) ++ Now("functions"))

------------------------------------------------ \* assemble.py, patching.py
assemble_at == Check
patch_asm ==
  Mutate(resolve_address ++ assemble_at ++ Old("bytes") ++ write_memory)

patch_bytes == Mutate(resolve_address ++ Check ++ Old("bytes") ++ write_memory)

load_bytes_from_memory ==
  Mutate(resolve_address ++ Check ++ Old("bytes") ++ write_memory)

create_function ==
  Mutate(resolve_address ++ InTransaction(Command("functions"))
           ++ Check ++ Check ++ Now("functions"))

make_code ==
  Mutate(resolve_address ++ InTransaction(Command("code")) ++ Check ++ Now("code"))

undefine == Mutate(resolve_address ++ InTransaction(Edit("code")))

------------------------------- \* bookmarks.py, chunks.py, colors.py
set_bookmark == Mutate(resolve_address ++ InTransaction(Edit("bookmarks")))

delete_bookmark ==
  Mutate(resolve_address ++ Check ++ InTransaction(Some(Edit("bookmarks"))))

append_function_tail ==
  Mutate(resolve_function ++ resolve_address ++ Check
           ++ InTransaction(Edit("functions")))

remove_function_tail ==
  Mutate(resolve_function ++ resolve_address ++ Check ++ Check
           ++ InTransaction(Edit("functions")))

parse_color == Check
set_color ==
  Mutate(Check ++ resolve_address ++ parse_color ++ Check ++ Old("colors") ++ Check
           ++ InTransaction(Some(Edit("colors")) | Some(Suppressed("colors"))))

---------------------------------------------- \* comments.py, database.py
set_comment ==
  Mutate(Check ++ resolve_address ++ Check ++ InTransaction(Edit("comments")))

set_decompiler_comment ==
  Mutate(resolve_address ++ Check ++ InTransaction(Edit("comments")))

set_function_comment ==
  Mutate(resolve_function ++ InTransaction(Edit("comments")) ++ Now("names"))

\* Session.save: a program that was saved has lost its undo history, which
\* the engine clears with its changed flag.
save == Save ++ ClearHistory
save_database == Mutate(Check ++ save)

take_snapshot == Mutate(save)

-------------------------------------------- \* decompiler.py, regvars.py
decompile == Check
rename_decompiler_variable ==
  Mutate(resolve_function ++ decompile ++ Check ++ Check
           ++ InTransaction(Edit("variables")))

retype_decompiler_variable ==
  Mutate(resolve_function ++ Check ++ decompile ++ Check ++ Old("variables")
           ++ InTransaction(Edit("variables")))

rename_regvar ==
  Mutate(resolve_function ++ decompile ++ Check ++ Check ++ Check
           ++ InTransaction(Edit("variables")))

--------------------------------------------- \* dirtree.py, entry_manip.py
get_tree_root == Check ++ Check
resolve_module == Check

create_folder ==
  Mutate(get_tree_root ++ Check ++ Maybe(resolve_module)
           ++ InTransaction(Edit("folders")))

rename_folder ==
  Mutate(get_tree_root ++ resolve_module ++ Check ++ InTransaction(Edit("folders")))

delete_folder ==
  Mutate(get_tree_root ++ Check ++ Maybe(resolve_module) ++ Check
           ++ InTransaction(Command("folders")))

add_entry_point ==
  Mutate(resolve_address ++ InTransaction(Edit("names") ++ Edit("entries")))

rename_entry_point ==
  Mutate(resolve_address ++ Check ++ Old("names") ++ InTransaction(Edit("names")))

------------------------------------------------------------- \* enums.py
resolve_enum == Check
create_enum == Mutate(InTransaction(Edit("types")))

delete_enum ==
  Mutate(resolve_enum ++ Old("types") ++ InTransaction(Command("types")))

add_enum_member == Mutate(resolve_enum ++ InTransaction(Edit("types")))

rename_enum == Mutate(resolve_enum ++ InTransaction(Edit("types")))

delete_enum_member ==
  Mutate(resolve_enum ++ Check ++ Old("types") ++ InTransaction(Edit("types")))

rename_enum_member ==
  Mutate(resolve_enum ++ Old("types") ++ Check ++ Check
           ++ InTransaction(Edit("types") ++ Edit("types")))

------------------------- \* func_flags.py, function_type.py, functions.py
set_function_flags ==
  Mutate(resolve_function
    ++ (Nothing
        | (Check ++ InTransaction(Maybe(Edit("flags")) ++ Maybe(Edit("flags"))
                     ++ Maybe(Maybe(Edit("tags")) ++ Command("flags")))))
    ++ Now("names"))

\* The declaration is parsed, and may define types, in a transaction of its own.
set_function_type ==
  Mutate(resolve_function ++ Old("signatures") ++ InTransaction(Command("types"))
           ++ Check ++ InTransaction(Check ++ Edit("signatures") ++ Edit("signatures"))
           ++ Now("signatures"))

set_function_calling_convention ==
  Mutate(resolve_function ++ Old("signatures") ++ InTransaction(Edit("signatures")))

rename_function ==
  Mutate(resolve_function ++ Old("names") ++ InTransaction(Edit("names")))

\* A function that is not there is refused once the transaction is over.
delete_function ==
  Mutate(resolve_function ++ Old("names")
           ++ ((Begin ++ End ++ Raise) | InTransaction(Edit("functions"))))

----------------------------------------------------------- \* makedata.py
get_data_type == Check
make_data ==
  Mutate(Check ++ get_data_type ++ resolve_address ++ check_range_in_memory
           ++ InTransaction(Edit("code") ++ Edit("data")))

make_string ==
  Mutate(Check ++ resolve_address ++ check_range_in_memory
           ++ InTransaction(Edit("code") ++ Edit("data") ++ Now("data")))

make_array ==
  Mutate(Check ++ Check ++ resolve_address ++ check_range_in_memory
           ++ InTransaction(Edit("code") ++ Edit("data")))

---------------------- \* names.py, operand_repr.py, rebase.py, signatures.py
rename_address ==
  Mutate(resolve_address ++ Old("names") ++ InTransaction(Edit("names")))

\* The equate is refused inside the transaction.
set_operand_format ==
  Mutate(resolve_address ++ Check ++ Check
           ++ InTransaction(Edit("operands") | (Command("operands") ++ Check)))

rebase_program == Mutate(Check ++ Old("base") ++ InTransaction(Edit("base")))

apply_function_id ==
  Mutate(Check ++ Check ++ InTransaction(Some(Edit("names"))))

----------------------------------------------------------- \* segments.py
resolve_block == Check
create_segment ==
  Mutate(resolve_address ++ Check
           ++ InTransaction(Edit("segments") ++ Edit("permissions")))

delete_segment ==
  Mutate(resolve_address ++ resolve_block ++ Old("segments") ++ Old("permissions")
           ++ InTransaction(Edit("segments")))

set_segment_name ==
  Mutate(resolve_address ++ resolve_block ++ Old("segments")
           ++ InTransaction(Edit("segments")))

set_segment_permissions ==
  Mutate(resolve_address ++ resolve_block ++ Old("permissions")
           ++ InTransaction(Edit("permissions") ++ Edit("permissions"))
           ++ Now("segments"))

-------------------------------- \* srclang.py, structs.py, typeinf.py, types.py
resolve_struct == Check
find_member == Check
parse_data_type == Check

\* The parser may define types before it gives up.
parse_source_declarations ==
  Mutate(Check ++ InTransaction(Command("types") ++ Check ++ Edit("types")) ++ Now("types"))

parse_type_declaration ==
  Mutate(InTransaction(Command("types") ++ Check ++ Edit("types")) ++ Now("types"))

create_structure == Mutate(InTransaction(Edit("types")))

add_struct_member ==
  Mutate(resolve_struct ++ parse_data_type
           ++ InTransaction(Edit("types") ++ Maybe(Now("types"))))

retype_struct_member ==
  Mutate(resolve_struct ++ find_member ++ Old("types") ++ parse_data_type
           ++ InTransaction(Edit("types")))

rename_struct_member ==
  Mutate(resolve_struct ++ find_member ++ InTransaction(Edit("types")))

delete_struct_member ==
  Mutate(resolve_struct ++ find_member ++ Old("types") ++ InTransaction(Edit("types")))

delete_structure ==
  Mutate(resolve_struct ++ Old("types") ++ InTransaction(Command("types")))

delete_local_type ==
  Mutate(Check ++ Old("types") ++ InTransaction(Command("types")))

set_type ==
  Mutate(resolve_address ++ Check ++ Check ++ parse_data_type
           ++ Maybe(check_range_in_memory)
           ++ InTransaction(Edit("code") ++ Edit("data")))

apply_type_at_address ==
  Mutate(resolve_address ++ Check ++ Maybe(check_range_in_memory)
           ++ InTransaction(Edit("code") ++ Edit("data")))

----------------------------------------------------------- \* xref_manip.py
get_ref_type == Check
add_code_xref ==
  Mutate(resolve_address ++ resolve_address ++ get_ref_type ++ InTransaction(Edit("xrefs")))

add_data_xref ==
  Mutate(resolve_address ++ resolve_address ++ get_ref_type ++ InTransaction(Edit("xrefs")))

delete_code_xref ==
  Mutate(resolve_address ++ resolve_address ++ Check ++ InTransaction(Edit("xrefs")))

delete_data_xref ==
  Mutate(resolve_address ++ resolve_address ++ Check ++ InTransaction(Edit("xrefs")))

--------------------------------------------------------------- \* undo.py
perform_undo == CanUndo ++ PerformUndo
perform_redo == CanRedo ++ PerformRedo
undo == Mutate(perform_undo)
redo == Mutate(perform_redo)

--------------------------------------- \* the tools that read: functions
\* A pattern that is no regular expression.
compile_filter == Check
get_instruction_at == Check
\* The text is kept for as long as the program is not modified.
cached_decompile == Maybe(decompile) ++ Now("code")

list_functions == ReadOnly(compile_filter ++ Now("functions"))

get_function == ReadOnly(resolve_function ++ Now("functions"))

decompile_function == ReadOnly(resolve_function ++ cached_decompile)

disassemble_function == ReadOnly(resolve_function ++ Now("code"))

list_function_chunks == ReadOnly(resolve_function ++ Now("functions"))

get_stack_frame == ReadOnly(resolve_function ++ Now("stack"))

get_function_vars == ReadOnly(resolve_function ++ decompile ++ Now("variables"))

get_function_type == ReadOnly(resolve_function ++ Now("types"))

get_basic_blocks == ReadOnly(resolve_function ++ Now("code"))

get_cfg_edges == ReadOnly(resolve_function ++ Now("code"))

get_ctree == ReadOnly(resolve_function ++ decompile ++ Now("code"))

find_ctree_calls == ReadOnly(resolve_function ++ decompile ++ Now("code"))

list_decompiler_variables == ReadOnly(resolve_function ++ decompile ++ Now("variables"))

list_regvars == ReadOnly(resolve_function ++ decompile ++ Check ++ Now("variables"))

get_decompiler_comments == ReadOnly(resolve_function ++ Now("comments"))

get_function_comment == ReadOnly(resolve_function ++ Now("comments"))

matching_functions == Now("functions")
\* A function that does not decompile is an entry of the answer's errors.
export_all_pseudocode == ReadOnly(compile_filter ++ matching_functions ++ Now("code"))

export_all_disassembly == ReadOnly(compile_filter ++ matching_functions ++ Now("code"))

------------------------------------------- \* that read: addresses and code
get_comment == ReadOnly(resolve_address ++ Now("comments"))

get_color == ReadOnly(Check ++ resolve_address ++ Maybe(Check) ++ Now("colors"))

get_byte_flags ==
  ReadOnly(resolve_address ++ Now("code") ++ Now("functions") ++ Now("names")
             ++ Now("comments"))

get_address_info ==
  ReadOnly(resolve_address ++ Now("code") ++ Now("names") ++ Now("xrefs")
             ++ Now("functions") ++ Now("segments"))

get_type_info == ReadOnly(resolve_address ++ Now("functions") ++ Maybe(Now("data")))

read_bytes == ReadOnly(Check ++ resolve_address ++ Now("bytes"))

assemble_instruction == ReadOnly(resolve_address ++ assemble_at ++ Now("bytes"))

decode_instruction == ReadOnly(resolve_address ++ get_instruction_at ++ Now("operands"))

\* Ends early where no instruction is.
decode_instructions == ReadOnly(resolve_address ++ Now("code"))

get_operand_value ==
  ReadOnly(resolve_address ++ get_instruction_at ++ Check ++ Now("operands"))

is_call_instruction == ReadOnly(resolve_address ++ Check ++ Now("code"))

is_return_instruction == ReadOnly(resolve_address ++ Check ++ Now("code"))

find_register_value == ReadOnly(resolve_address ++ Check ++ Check ++ Now("code"))

get_switch_info == ReadOnly(resolve_address ++ Check ++ Check ++ Now("xrefs"))

list_switches == ReadOnly(Now("code") ++ Now("xrefs"))

get_xrefs_to == ReadOnly(resolve_address ++ Now("xrefs"))

get_xrefs_from == ReadOnly(resolve_address ++ Now("xrefs"))

get_call_graph == ReadOnly(resolve_address ++ Check ++ Now("xrefs"))

------------------------------------------------- \* that read: the program
get_analysis_problems == ReadOnly(Now("bookmarks"))

get_bookmarks == ReadOnly(Now("bookmarks"))

get_segments == ReadOnly(Now("segments"))

get_database_info ==
  ReadOnly(Now("segments") ++ Now("functions") ++ Now("entries") ++ Now("base"))

list_folders == ReadOnly(get_tree_root ++ Maybe(resolve_module) ++ Now("folders"))

get_imports == ReadOnly(Now("names"))

get_exports == ReadOnly(Now("names"))

get_entry_points == ReadOnly(Now("entries"))

list_names == ReadOnly(compile_filter ++ Now("names"))

demangle_name == ReadOnly(Nothing)

demangle_at_address == ReadOnly(resolve_address ++ Now("names"))

list_demangled_names == ReadOnly(compile_filter ++ Now("names"))

get_strings == ReadOnly(compile_filter ++ Now("data"))

find_code_by_string == ReadOnly(compile_filter ++ Check ++ Now("data") ++ Now("xrefs"))

search_bytes == ReadOnly(Check ++ Check ++ Maybe(resolve_address) ++ Now("bytes"))

search_text == ReadOnly(compile_filter ++ Check ++ Now("code"))

get_processor_info == ReadOnly(Nothing)

get_register_name == ReadOnly(Nothing)

list_enums == ReadOnly(Now("types"))

get_enum_members == ReadOnly(resolve_enum ++ Now("types"))

list_structures == ReadOnly(compile_filter ++ Now("types"))

get_structure == ReadOnly(resolve_struct ++ Now("types"))

list_local_types == ReadOnly(compile_filter ++ Now("types"))

get_local_type == ReadOnly(Check ++ Now("types"))

list_data_type_archives == ReadOnly(Now("types"))

generate_signatures == ReadOnly(Raise)

list_snapshots == ReadOnly(Nothing)

convert_number == ReadOnly(Check)
------------------------------------------------------------------ \* table
Table ==
  [reanalyze_range |-> reanalyze_range, analyze_database |-> analyze_database,
   patch_asm |-> patch_asm, patch_bytes |-> patch_bytes,
   load_bytes_from_memory |-> load_bytes_from_memory,
   create_function |-> create_function, make_code |-> make_code, undefine |-> undefine,
   set_bookmark |-> set_bookmark, delete_bookmark |-> delete_bookmark,
   append_function_tail |-> append_function_tail,
   remove_function_tail |-> remove_function_tail, set_color |-> set_color,
   set_comment |-> set_comment, set_decompiler_comment |-> set_decompiler_comment,
   set_function_comment |-> set_function_comment, save_database |-> save_database,
   take_snapshot |-> take_snapshot,
   rename_decompiler_variable |-> rename_decompiler_variable,
   retype_decompiler_variable |-> retype_decompiler_variable,
   rename_regvar |-> rename_regvar, create_folder |-> create_folder,
   rename_folder |-> rename_folder, delete_folder |-> delete_folder,
   add_entry_point |-> add_entry_point, rename_entry_point |-> rename_entry_point,
   create_enum |-> create_enum, delete_enum |-> delete_enum,
   add_enum_member |-> add_enum_member, rename_enum |-> rename_enum,
   delete_enum_member |-> delete_enum_member, rename_enum_member |-> rename_enum_member,
   set_function_flags |-> set_function_flags, set_function_type |-> set_function_type,
   set_function_calling_convention |-> set_function_calling_convention,
   rename_function |-> rename_function, delete_function |-> delete_function,
   make_data |-> make_data, make_string |-> make_string, make_array |-> make_array,
   rename_address |-> rename_address, set_operand_format |-> set_operand_format,
   rebase_program |-> rebase_program, apply_function_id |-> apply_function_id,
   create_segment |-> create_segment, delete_segment |-> delete_segment,
   set_segment_name |-> set_segment_name,
   set_segment_permissions |-> set_segment_permissions,
   parse_source_declarations |-> parse_source_declarations,
   parse_type_declaration |-> parse_type_declaration,
   create_structure |-> create_structure, add_struct_member |-> add_struct_member,
   retype_struct_member |-> retype_struct_member,
   rename_struct_member |-> rename_struct_member,
   delete_struct_member |-> delete_struct_member, delete_structure |-> delete_structure,
   delete_local_type |-> delete_local_type, set_type |-> set_type,
   apply_type_at_address |-> apply_type_at_address, add_code_xref |-> add_code_xref,
   add_data_xref |-> add_data_xref, delete_code_xref |-> delete_code_xref,
   delete_data_xref |-> delete_data_xref, undo |-> undo, redo |-> redo,
   list_functions |-> list_functions, get_function |-> get_function,
   decompile_function |-> decompile_function,
   disassemble_function |-> disassemble_function,
   list_function_chunks |-> list_function_chunks, get_stack_frame |-> get_stack_frame,
   get_function_vars |-> get_function_vars, get_function_type |-> get_function_type,
   get_basic_blocks |-> get_basic_blocks, get_cfg_edges |-> get_cfg_edges,
   get_ctree |-> get_ctree, find_ctree_calls |-> find_ctree_calls,
   list_decompiler_variables |-> list_decompiler_variables,
   list_regvars |-> list_regvars, get_decompiler_comments |-> get_decompiler_comments,
   get_function_comment |-> get_function_comment,
   export_all_pseudocode |-> export_all_pseudocode,
   export_all_disassembly |-> export_all_disassembly, get_comment |-> get_comment,
   get_color |-> get_color, get_byte_flags |-> get_byte_flags,
   get_address_info |-> get_address_info, get_type_info |-> get_type_info,
   read_bytes |-> read_bytes, assemble_instruction |-> assemble_instruction,
   decode_instruction |-> decode_instruction,
   decode_instructions |-> decode_instructions, get_operand_value |-> get_operand_value,
   is_call_instruction |-> is_call_instruction,
   is_return_instruction |-> is_return_instruction,
   find_register_value |-> find_register_value, get_switch_info |-> get_switch_info,
   list_switches |-> list_switches, get_xrefs_to |-> get_xrefs_to,
   get_xrefs_from |-> get_xrefs_from, get_call_graph |-> get_call_graph,
   get_analysis_problems |-> get_analysis_problems, get_bookmarks |-> get_bookmarks,
   get_segments |-> get_segments, get_database_info |-> get_database_info,
   list_folders |-> list_folders, get_imports |-> get_imports,
   get_exports |-> get_exports, get_entry_points |-> get_entry_points,
   list_names |-> list_names, demangle_name |-> demangle_name,
   demangle_at_address |-> demangle_at_address,
   list_demangled_names |-> list_demangled_names, get_strings |-> get_strings,
   find_code_by_string |-> find_code_by_string, search_bytes |-> search_bytes,
   search_text |-> search_text, get_processor_info |-> get_processor_info,
   get_register_name |-> get_register_name, list_enums |-> list_enums,
   get_enum_members |-> get_enum_members, list_structures |-> list_structures,
   get_structure |-> get_structure, list_local_types |-> list_local_types,
   get_local_type |-> get_local_type,
   list_data_type_archives |-> list_data_type_archives,
   generate_signatures |-> generate_signatures, list_snapshots |-> list_snapshots,
   convert_number |-> convert_number]
=============================================================================
