------------------------------ MODULE IdaEdits ------------------------------
(* What each tool of the IDA backend that edits does to the database.  IDA has no
   transactions: a tool that raises after an edit leaves it, and only the undo
   point taken before the call brings the database back. *)
EXTENDS ToolSteps

resolve_address == Check
resolve_function == resolve_address ++ Check
\* The function is resolved, then decompiled.
decompile_at == resolve_function ++ Check
check_mapped == Check
\* Empty, not an identifier, or taken by another address.
check_new_name == Check
parse_type == Check

\* The engine says whether it made the change, and the tool does not ask.
Ignored(part) == Nothing | Put(part)

------------------------------------------------------------- \* analysis.py
reanalyze_range == Mutate(resolve_address ++ Analysis)

analyze_database == Mutate(Analysis ++ Now("functions") ++ Now("segments"))

set_segment_register ==
  Mutate(resolve_address ++ Old("registers") ++ Edit("registers"))

-------------------- \* assemble.py, bookmarks.py, chunks.py, colors.py
assemble_at == Check
patch_asm == Mutate(resolve_address ++ assemble_at ++ Old("bytes") ++ Ignored("bytes"))

set_bookmark ==
  Mutate(resolve_address ++ Check ++ Maybe(Check) ++ Old("bookmarks") ++ Ignored("bookmarks"))

delete_bookmark == Mutate(Check ++ Check ++ Old("bookmarks") ++ Ignored("bookmarks"))

append_function_tail == Mutate(resolve_function ++ resolve_address ++ Edit("functions"))

remove_function_tail == Mutate(resolve_function ++ resolve_address ++ Edit("functions"))

set_tail_owner ==
  Mutate(resolve_address ++ Check ++ Old("functions") ++ Edit("functions"))

set_color == Mutate(resolve_address ++ Check ++ Check ++ Old("colors") ++ Edit("colors"))

------------------------------------------------------------ \* comments.py
set_comment ==
  Mutate(resolve_address ++ check_mapped ++ Old("comments") ++ Edit("comments"))

\* A comment that holds the text already is left alone.
append_comment ==
  Mutate(resolve_address ++ check_mapped ++ Old("comments") ++ Maybe(Edit("comments")))

set_function_comment == Mutate(resolve_function ++ Old("comments") ++ Edit("comments"))

------------------------------------------------------------ \* database.py
save_database == Mutate(Save)

flush_buffers == Mutate(Nothing)

set_database_flag == Mutate(Check ++ Put("flags"))

reload_file == Mutate(Edit("bytes"))

---------------------------------------------------------- \* decompiler.py
rename_decompiler_variable == Mutate(decompile_at ++ Check ++ Edit("variables"))

retype_decompiler_variable ==
  Mutate(decompile_at ++ parse_type ++ Check ++ Old("variables") ++ Edit("variables"))

set_decompiler_comment ==
  Mutate(resolve_address ++ decompile_at ++ Old("comments") ++ Put("comments"))

\* Only the cached text goes.
refresh_decompilation == Mutate(resolve_function)

find_lvar == Check
map_decompiler_variable ==
  Mutate(Check ++ decompile_at ++ find_lvar ++ find_lvar ++ Ignored("variables"))

clear_decompiler_variable_maps ==
  Mutate(resolve_function ++ Old("variables") ++ Maybe(Ignored("variables")))

---------------------------------------------- \* dirtree.py, entry_manip.py
get_dirtree == Check ++ Check
create_folder == Mutate(get_dirtree ++ Edit("folders"))

rename_folder == Mutate(get_dirtree ++ Edit("folders"))

delete_folder == Mutate(get_dirtree ++ Edit("folders"))

resolve_entry == Check
add_entry_point == Mutate(resolve_address ++ Edit("entries"))

rename_entry_point == Mutate(resolve_entry ++ Old("entries") ++ Edit("entries"))

set_entry_forwarder == Mutate(resolve_entry ++ Old("entries") ++ Edit("entries"))

--------------------------------------------------------------- \* enums.py
\* Not found, not an enum, no details.
get_enum_tif == Check
find_member_by_value == Check
\* The type is built again from its members, and then replaces the old one.
save_enum == Check ++ Edit("types")

create_enum == Mutate(Check ++ Edit("types"))

delete_enum == Mutate(get_enum_tif ++ Old("types") ++ Edit("types"))

add_enum_member == Mutate(get_enum_tif ++ Check ++ save_enum)

rename_enum == Mutate(get_enum_tif ++ Edit("types"))

delete_enum_member == Mutate(get_enum_tif ++ find_member_by_value ++ Old("types") ++ save_enum)

rename_enum_member == Mutate(get_enum_tif ++ find_member_by_value ++ Old("types") ++ save_enum)

set_enum_member_comment ==
  Mutate(get_enum_tif ++ find_member_by_value ++ Old("types") ++ save_enum)

------------------------------------------------ \* export.py, frames.py
\* They write a file, and nothing of the database.
generate_output_file == Mutate(Check ++ Maybe(resolve_address) ++ Check ++ Check)

generate_exe_file == Mutate(Check ++ Check)

stack_point_ea == Check
delete_user_stack_point == stack_point_ea ++ Check ++ Edit("stack")

set_stack_delta ==
  Mutate(resolve_address ++ resolve_function ++ stack_point_ea
           ++ Old("stack") ++ Edit("stack") ++ Now("stack"))

delete_stack_delta ==
  Mutate(resolve_address ++ resolve_function ++ stack_point_ea
           ++ Old("stack") ++ delete_user_stack_point ++ Now("stack"))

------------------------- \* func_flags.py, function_type.py, functions.py
set_function_flags ==
  Mutate(resolve_function ++ Old("flags") ++ Maybe(Edit("flags")) ++ Now("flags"))

add_hidden_range == Mutate(resolve_address ++ resolve_address ++ Edit("ranges"))

delete_hidden_range == Mutate(resolve_address ++ Old("ranges") ++ Edit("ranges"))

set_function_type ==
  Mutate(resolve_function ++ Old("signatures") ++ Edit("signatures") ++ Now("names"))

set_function_calling_convention ==
  Mutate(resolve_function ++ Check ++ Check ++ Old("signatures") ++ Check
           ++ Edit("signatures") ++ Now("names"))

apply_call_site_type == Edit("operands")
set_call_type ==
  Mutate(resolve_address ++ resolve_function ++ Check ++ parse_type ++ apply_call_site_type)

clear_call_site_type == Check ++ Put("operands")
clear_call_type == Mutate(resolve_address ++ resolve_function ++ clear_call_site_type)

rename_function ==
  Mutate(resolve_function ++ Old("names") ++ check_new_name ++ Edit("names"))

delete_function ==
  Mutate(resolve_function ++ Old("functions") ++ Old("names") ++ Edit("functions"))

set_function_bounds ==
  Mutate(resolve_function ++ resolve_address ++ Old("functions")
           ++ Edit("functions") ++ Now("names"))

---------------------------------------- \* imports_exports.py, load_data.py
set_import_name == Mutate(resolve_address ++ Put("names"))

set_import_ordinal == Mutate(resolve_address ++ Put("entries"))

\* The file is there, reaches the offset and can be opened.
validate_and_open == Check
load_additional_binary ==
  Mutate(resolve_address ++ validate_and_open ++ Edit("bytes"))

load_bytes_from_file ==
  Mutate(resolve_address ++ validate_and_open ++ Old("bytes") ++ Edit("bytes"))

load_bytes_from_memory == Mutate(resolve_address ++ Check ++ Old("bytes") ++ Edit("bytes"))

------------------------------------------------------------ \* makedata.py
validate_count == Check
make_data == Mutate(resolve_address ++ validate_count ++ Old("code") ++ Edit("code"))

make_string == Mutate(resolve_address ++ Check ++ Old("code") ++ Edit("code"))

make_array ==
  Mutate(resolve_address ++ validate_count ++ Check ++ Old("code") ++ Edit("code"))

------------------------------------ \* nalt.py, names.py, operand_repr.py
set_source_line_number ==
  Mutate(resolve_address ++ Check ++ Old("lines") ++ Put("lines"))

set_library_item == Mutate(resolve_address ++ Old("flags") ++ Put("flags"))

\* The empty name removes the name, and is not tested.
rename_address ==
  Mutate(resolve_address ++ Old("names") ++ Maybe(check_new_name) ++ Edit("names"))

validate_operand_num == Check
set_operand_repr == validate_operand_num ++ Old("operands") ++ Edit("operands")
set_operand_format == Mutate(resolve_address ++ set_operand_repr)

set_operand_offset ==
  Mutate(validate_operand_num ++ resolve_address ++ Old("operands") ++ Edit("operands"))

resolve_enum == Check
set_operand_enum ==
  Mutate(validate_operand_num ++ resolve_address ++ resolve_enum
           ++ Old("operands") ++ Edit("operands"))

resolve_struct == Check
decode_insn_at == Check
set_operand_struct_offset ==
  Mutate(validate_operand_num ++ resolve_address ++ resolve_struct ++ decode_insn_at
           ++ Old("operands") ++ Edit("operands"))

---------------------------------- \* patching.py, rebase.py, regvars.py
patch_bytes == Mutate(resolve_address ++ Check ++ Old("bytes") ++ Ignored("bytes"))

create_function == Mutate(resolve_address ++ Edit("functions") ++ Now("functions") ++ Now("names"))

make_code == Mutate(resolve_address ++ Old("code") ++ Edit("code"))

undefine == Mutate(resolve_address ++ Old("code") ++ Edit("code"))

resolve_segment == Check
move_segment == Mutate(resolve_segment ++ resolve_address ++ Old("segments") ++ Edit("segments"))

rebase_program == Mutate(Check ++ Old("base") ++ Edit("base"))

resolve_regvar == resolve_function ++ resolve_address ++ Check
add_regvar == Mutate(resolve_function ++ resolve_address ++ resolve_address ++ Edit("registers"))

delete_regvar ==
  Mutate(resolve_function ++ resolve_address ++ resolve_address
           ++ Old("registers") ++ Edit("registers"))

rename_regvar == Mutate(resolve_regvar ++ Old("registers") ++ Edit("registers"))

set_regvar_comment == Mutate(resolve_regvar ++ Old("registers") ++ Edit("registers"))

------------------------------------------------ \* search.py, segments.py
build_strlist == Put("strings")
rebuild_string_list == Mutate(build_strlist ++ Now("strings"))

parse_permissions == Check
create_segment ==
  Mutate(resolve_address ++ resolve_address ++ parse_permissions ++ Edit("segments"))

delete_segment == Mutate(resolve_segment ++ Old("segments") ++ Edit("segments"))

set_segment_name == Mutate(resolve_segment ++ Old("segments") ++ Edit("segments"))

set_segment_permissions ==
  Mutate(resolve_segment ++ parse_permissions ++ Old("permissions") ++ Edit("permissions"))

set_segment_bitness ==
  Mutate(resolve_segment ++ Check ++ Old("segments") ++ Edit("segments"))

set_segment_class == Mutate(resolve_segment ++ Old("segments") ++ Edit("segments"))

-------------- \* sig_gen.py, signatures.py, snapshots.py, srclang.py
\* It writes a file, and nothing of the database.
generate_signatures == Mutate(Check ++ Check)

\* The signature is only planned: the analysis applies it.
apply_flirt_signature == Mutate(Edit("plan"))

load_type_library == Mutate(Edit("types"))

load_ids_module == Mutate(Edit("types"))

take_snapshot == Mutate(Save)

\* Declarations with errors are counted, and the others kept.
parse_source_declarations == Mutate(Check ++ Ignored("types"))

-------------------------------------------------------------- \* structs.py
resolve_member_offset == Check
create_structure == Mutate(Check ++ Edit("types"))

delete_structure == Mutate(resolve_struct ++ Old("types") ++ Edit("types"))

\* A member whose type is refused is there already.
add_struct_member == Mutate(resolve_struct ++ Check ++ Edit("types") ++ Maybe(Edit("types")))

rename_struct_member == Mutate(resolve_struct ++ resolve_member_offset ++ Edit("types"))

delete_struct_member ==
  Mutate(resolve_struct ++ resolve_member_offset ++ Old("types") ++ Edit("types"))

retype_struct_member ==
  Mutate(resolve_struct ++ resolve_member_offset ++ Check ++ Old("types")
           ++ parse_type ++ Edit("types"))

set_struct_member_comment ==
  Mutate(resolve_struct ++ resolve_member_offset ++ Old("types") ++ Edit("types"))

---------------------------------------------------- \* typeinf.py, types.py
\* The types that a failed declaration has registered are deleted again, or the
\* engine does not delete them.
discard_new_ordinals == Maybe(Revert("types"))

\* A declaration with errors is parsed again as one anonymous type, which is
\* answered as not saved.
parse_declaration ==
  Ignored("types")
    ++ (Now("types") | Unsaved("types") | (discard_new_ordinals ++ Raise))

parse_type_declaration == Mutate(parse_declaration)

delete_local_type == Mutate(Check ++ Old("types") ++ Edit("types"))

delete_local_type_by_ordinal == Mutate(Check ++ Old("types") ++ Edit("types"))

apply_type_at_address ==
  Mutate(resolve_address ++ Check ++ Check ++ Old("types") ++ Edit("types"))

set_type == Mutate(resolve_address ++ Old("types") ++ Edit("types"))

-------------------------------------- \* utility.py, xref_manip.py, undo.py
\* A script does what it likes, and may raise at any point.
run_script == Mutate(Some(Edit("script")))

add_code_xref == Mutate(resolve_address ++ resolve_address ++ Check ++ Edit("xrefs"))

add_data_xref == Mutate(resolve_address ++ resolve_address ++ Check ++ Edit("xrefs"))

delete_code_xref == Mutate(resolve_address ++ resolve_address ++ Ignored("xrefs"))

delete_data_xref == Mutate(resolve_address ++ resolve_address ++ Ignored("xrefs"))

undo == Mutate(CanUndo ++ PerformUndo)
redo == Mutate(CanRedo ++ PerformRedo)
=============================================================================
