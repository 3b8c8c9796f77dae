------------------------------ MODULE IdaTools ------------------------------
(* All tools of the IDA backend: those of IdaEdits, and those that only read the
   database, and so take no undo point.  Each of these resolves what it is asked
   about and answers with parts of the database as they are now. *)
EXTENDS IdaEdits

--------------------------------------- \* the tools that read: functions
\* A pattern that is no regular expression.
compile_filter == Check
\* A flag that another thread sets ends a long loop with an exception.
check_cancelled == Check
\* A list of filters, of which each may be wrong.
filters == Some(compile_filter)

batch_functions == filters ++ Now("functions")
list_functions ==
  ReadOnly((Check ++ Some(Check) ++ batch_functions)
             | (compile_filter ++ Check ++ Now("functions")))

get_function == ReadOnly(resolve_function ++ Now("functions") ++ Now("comments"))

decompile_function == ReadOnly(Check ++ decompile_at ++ Now("code"))

disassemble_function == ReadOnly(resolve_function ++ Now("code"))

list_function_chunks == ReadOnly(resolve_function ++ Now("functions"))

get_stack_frame == ReadOnly(resolve_function ++ Now("stack"))

get_function_vars == ReadOnly(decompile_at ++ Now("variables"))

get_function_type == ReadOnly(resolve_function ++ Now("types"))

get_basic_blocks == ReadOnly(resolve_function ++ Now("code"))

get_cfg_edges == ReadOnly(resolve_function ++ Now("code"))

get_ctree == ReadOnly(decompile_at ++ Now("code"))

find_ctree_calls == ReadOnly(decompile_at ++ Now("code"))

find_ctree_patterns == ReadOnly(decompile_at ++ Check ++ Now("code"))

get_microcode == ReadOnly(resolve_function ++ Check ++ Check ++ Check ++ Now("code"))

get_decompiler_comments == ReadOnly(decompile_at ++ Now("comments"))

list_decompiler_variables == ReadOnly(decompile_at ++ Now("variables"))

get_pseudocode_line_map == ReadOnly(decompile_at ++ Now("code"))

get_regvar == ReadOnly(resolve_regvar ++ Now("registers"))

list_regvars == ReadOnly(resolve_function ++ Now("registers"))

get_exception_handlers == ReadOnly(resolve_function ++ Now("code"))

get_function_comment == ReadOnly(resolve_function ++ Now("comments"))

\* The page of functions is chosen in one job of the main thread, and each of
\* them is exported in a job of its own.
prepare_candidates == compile_filter ++ Now("functions")
\* A function that does not decompile is an entry of the answer's errors.
export_all_pseudocode ==
  ReadOnly(prepare_candidates ++ Some(check_cancelled ++ Now("code")))

export_all_disassembly ==
  ReadOnly(prepare_candidates ++ Some(check_cancelled ++ Now("code")))

------------------------------------------- \* that read: addresses and code
get_comment == ReadOnly(resolve_address ++ Now("comments"))

get_color == ReadOnly(resolve_address ++ Check ++ Now("colors"))

get_byte_flags == ReadOnly(resolve_address ++ Now("flags"))

get_address_info == ReadOnly(resolve_address ++ Now("flags") ++ Now("lines"))

get_source_line_number == ReadOnly(resolve_address ++ Now("lines"))

get_type_info == ReadOnly(resolve_address ++ Now("types") ++ Now("names"))

get_segment_registers == ReadOnly(resolve_address ++ Now("registers"))

get_fileregion_offset == ReadOnly(resolve_address ++ Check)

get_fileregion_ea == ReadOnly(Check)

read_bytes == ReadOnly(resolve_address ++ Check ++ Now("bytes"))

read_pointer_table ==
  ReadOnly(resolve_address ++ Check
             ++ Some(check_cancelled ++ Now("bytes") ++ Maybe(Now("names") ++ Now("data"))))

assemble_instruction == ReadOnly(resolve_address ++ assemble_at ++ Now("bytes"))

decode_instruction == ReadOnly(resolve_address ++ decode_insn_at ++ Now("operands"))

\* Ends early where nothing decodes.
decode_instructions == ReadOnly(resolve_address ++ Now("code"))

get_operand_value ==
  ReadOnly(resolve_address ++ validate_operand_num ++ Check ++ Now("operands"))

is_call_instruction == ReadOnly(resolve_address ++ decode_insn_at)

is_return_instruction == ReadOnly(resolve_address ++ decode_insn_at)

is_alignment_instruction == ReadOnly(resolve_address)

find_register_value == ReadOnly(resolve_address ++ Check ++ Now("code"))

find_stack_pointer_value == ReadOnly(resolve_address ++ Check ++ Now("stack"))

get_switch_info == ReadOnly(resolve_address ++ Check ++ Now("xrefs"))

list_switches == ReadOnly(Now("xrefs"))

get_xrefs_to == ReadOnly(resolve_address ++ Now("xrefs"))

get_xrefs_from == ReadOnly(resolve_address ++ Now("xrefs"))

get_call_graph == ReadOnly(resolve_function ++ Now("xrefs"))

------------------------------------------------ \* that read: the database
get_analysis_problems == ReadOnly(Some(check_cancelled) ++ Now("analysis"))

get_fixups ==
  ReadOnly(Maybe(resolve_address) ++ Maybe(resolve_address) ++ Some(check_cancelled)
             ++ Now("segments"))

get_bookmarks == ReadOnly(Now("bookmarks"))

get_hidden_ranges == ReadOnly(Now("ranges"))

get_segments == ReadOnly(Now("segments"))

get_database_info ==
  ReadOnly(Now("functions") ++ Now("segments") ++ Now("entries"))

get_database_paths == ReadOnly(Nothing)

get_database_flags == ReadOnly(Now("flags"))

get_elf_debug_file_directory == ReadOnly(Nothing)

list_folders == ReadOnly(get_dirtree ++ Now("folders"))

get_imports == ReadOnly(Now("names"))

get_exports == ReadOnly(Now("entries"))

get_entry_points == ReadOnly(Now("entries"))

get_entry_forwarder == ReadOnly(resolve_entry ++ Now("entries"))

batch_names == filters ++ Now("names")
list_names == ReadOnly((Check ++ batch_names) | (compile_filter ++ Now("names")))

demangle_name == ReadOnly(Nothing)

demangle_at_address == ReadOnly(resolve_address ++ Now("names"))

batch_demangled_names == filters ++ Now("names")
list_demangled_names == ReadOnly((Check ++ batch_demangled_names) | (compile_filter ++ Now("names")))

iter_strings == Now("strings")
batch_strings == filters ++ Now("strings")
get_strings == ReadOnly((Check ++ batch_strings) | (compile_filter ++ iter_strings))

collect_string_refs == Now("xrefs")
find_code_by_string ==
  ReadOnly(compile_filter ++ Check ++ iter_strings ++ collect_string_refs)

search_bytes_sync == Maybe(resolve_address) ++ Check ++ Check ++ Now("bytes")
search_bytes == ReadOnly(search_bytes_sync)

linear_disasm_search == Now("code")
search_text == ReadOnly(linear_disasm_search)

find_immediate == ReadOnly(Maybe(resolve_address) ++ linear_disasm_search)

get_processor_info == ReadOnly(Nothing)

get_register_name == ReadOnly(Nothing)

get_instruction_list == ReadOnly(Nothing)

list_flirt_signatures == ReadOnly(Now("signatures"))

list_type_libraries == ReadOnly(Now("types"))

list_snapshots == ReadOnly(Nothing)

get_source_parser == ReadOnly(Nothing)

list_enums == ReadOnly(Now("types"))

get_enum_members == ReadOnly(get_enum_tif ++ Now("types"))

list_structures == ReadOnly(Now("types"))

get_structure == ReadOnly(resolve_struct ++ Now("types"))

list_local_types == ReadOnly(compile_filter ++ Now("types"))

get_local_type == ReadOnly(Check ++ Check ++ Now("types"))

convert_number == ReadOnly(Check)

\* An expression of IDA's own language, which may be an assignment to the
\* database: the tool is annotated as read-only all the same.
evaluate_expression == ReadOnly(Maybe(Edit("script")))

------------------------------------------------------------ \* table
\* The tools by name.
Table ==
  [reanalyze_range |-> reanalyze_range, analyze_database |-> analyze_database,
   set_segment_register |-> set_segment_register, patch_asm |-> patch_asm,
   set_bookmark |-> set_bookmark, delete_bookmark |-> delete_bookmark,
   append_function_tail |-> append_function_tail,
   remove_function_tail |-> remove_function_tail, set_tail_owner |-> set_tail_owner,
   set_color |-> set_color, set_comment |-> set_comment,
   append_comment |-> append_comment, set_function_comment |-> set_function_comment,
   save_database |-> save_database, flush_buffers |-> flush_buffers,
   set_database_flag |-> set_database_flag, reload_file |-> reload_file,
   rename_decompiler_variable |-> rename_decompiler_variable,
   retype_decompiler_variable |-> retype_decompiler_variable,
   set_decompiler_comment |-> set_decompiler_comment,
   refresh_decompilation |-> refresh_decompilation,
   map_decompiler_variable |-> map_decompiler_variable,
   clear_decompiler_variable_maps |-> clear_decompiler_variable_maps,
   create_folder |-> create_folder, rename_folder |-> rename_folder,
   delete_folder |-> delete_folder, add_entry_point |-> add_entry_point,
   rename_entry_point |-> rename_entry_point, set_entry_forwarder |-> set_entry_forwarder,
   create_enum |-> create_enum, delete_enum |-> delete_enum,
   add_enum_member |-> add_enum_member, rename_enum |-> rename_enum,
   delete_enum_member |-> delete_enum_member, rename_enum_member |-> rename_enum_member,
   set_enum_member_comment |-> set_enum_member_comment,
   generate_output_file |-> generate_output_file, generate_exe_file |-> generate_exe_file,
   set_stack_delta |-> set_stack_delta, delete_stack_delta |-> delete_stack_delta,
   set_function_flags |-> set_function_flags, add_hidden_range |-> add_hidden_range,
   delete_hidden_range |-> delete_hidden_range, set_function_type |-> set_function_type,
   set_function_calling_convention |-> set_function_calling_convention,
   set_call_type |-> set_call_type, clear_call_type |-> clear_call_type,
   rename_function |-> rename_function, delete_function |-> delete_function,
   set_function_bounds |-> set_function_bounds, set_import_name |-> set_import_name,
   set_import_ordinal |-> set_import_ordinal,
   load_additional_binary |-> load_additional_binary,
   load_bytes_from_file |-> load_bytes_from_file,
   load_bytes_from_memory |-> load_bytes_from_memory, make_data |-> make_data,
   make_string |-> make_string, make_array |-> make_array,
   set_source_line_number |-> set_source_line_number,
   set_library_item |-> set_library_item, rename_address |-> rename_address,
   set_operand_format |-> set_operand_format, set_operand_offset |-> set_operand_offset,
   set_operand_enum |-> set_operand_enum,
   set_operand_struct_offset |-> set_operand_struct_offset, patch_bytes |-> patch_bytes,
   create_function |-> create_function, make_code |-> make_code, undefine |-> undefine,
   move_segment |-> move_segment, rebase_program |-> rebase_program,
   add_regvar |-> add_regvar, delete_regvar |-> delete_regvar,
   rename_regvar |-> rename_regvar, set_regvar_comment |-> set_regvar_comment,
   rebuild_string_list |-> rebuild_string_list, create_segment |-> create_segment,
   delete_segment |-> delete_segment, set_segment_name |-> set_segment_name,
   set_segment_permissions |-> set_segment_permissions,
   set_segment_bitness |-> set_segment_bitness, set_segment_class |-> set_segment_class,
   generate_signatures |-> generate_signatures,
   apply_flirt_signature |-> apply_flirt_signature,
   load_type_library |-> load_type_library, load_ids_module |-> load_ids_module,
   take_snapshot |-> take_snapshot,
   parse_source_declarations |-> parse_source_declarations,
   create_structure |-> create_structure, delete_structure |-> delete_structure,
   add_struct_member |-> add_struct_member, rename_struct_member |-> rename_struct_member,
   delete_struct_member |-> delete_struct_member,
   retype_struct_member |-> retype_struct_member,
   set_struct_member_comment |-> set_struct_member_comment,
   parse_type_declaration |-> parse_type_declaration,
   delete_local_type |-> delete_local_type,
   delete_local_type_by_ordinal |-> delete_local_type_by_ordinal,
   apply_type_at_address |-> apply_type_at_address, set_type |-> set_type,
   run_script |-> run_script, add_code_xref |-> add_code_xref,
   add_data_xref |-> add_data_xref, delete_code_xref |-> delete_code_xref,
   delete_data_xref |-> delete_data_xref, undo |-> undo, redo |-> redo,
   list_functions |-> list_functions, get_function |-> get_function,
   decompile_function |-> decompile_function,
   disassemble_function |-> disassemble_function,
   list_function_chunks |-> list_function_chunks, get_stack_frame |-> get_stack_frame,
   get_function_vars |-> get_function_vars, get_function_type |-> get_function_type,
   get_basic_blocks |-> get_basic_blocks, get_cfg_edges |-> get_cfg_edges,
   get_ctree |-> get_ctree, find_ctree_calls |-> find_ctree_calls,
   find_ctree_patterns |-> find_ctree_patterns, get_microcode |-> get_microcode,
   get_decompiler_comments |-> get_decompiler_comments,
   list_decompiler_variables |-> list_decompiler_variables,
   get_pseudocode_line_map |-> get_pseudocode_line_map, get_regvar |-> get_regvar,
   list_regvars |-> list_regvars, get_exception_handlers |-> get_exception_handlers,
   get_function_comment |-> get_function_comment,
   export_all_pseudocode |-> export_all_pseudocode,
   export_all_disassembly |-> export_all_disassembly, get_comment |-> get_comment,
   get_color |-> get_color, get_byte_flags |-> get_byte_flags,
   get_address_info |-> get_address_info,
   get_source_line_number |-> get_source_line_number, get_type_info |-> get_type_info,
   get_segment_registers |-> get_segment_registers,
   get_fileregion_offset |-> get_fileregion_offset,
   get_fileregion_ea |-> get_fileregion_ea, read_bytes |-> read_bytes,
   read_pointer_table |-> read_pointer_table,
   assemble_instruction |-> assemble_instruction,
   decode_instruction |-> decode_instruction, decode_instructions |-> decode_instructions,
   get_operand_value |-> get_operand_value, is_call_instruction |-> is_call_instruction,
   is_return_instruction |-> is_return_instruction,
   is_alignment_instruction |-> is_alignment_instruction,
   find_register_value |-> find_register_value,
   find_stack_pointer_value |-> find_stack_pointer_value,
   get_switch_info |-> get_switch_info, list_switches |-> list_switches,
   get_xrefs_to |-> get_xrefs_to, get_xrefs_from |-> get_xrefs_from,
   get_call_graph |-> get_call_graph, get_analysis_problems |-> get_analysis_problems,
   get_fixups |-> get_fixups, get_bookmarks |-> get_bookmarks,
   get_hidden_ranges |-> get_hidden_ranges, get_segments |-> get_segments,
   get_database_info |-> get_database_info, get_database_paths |-> get_database_paths,
   get_database_flags |-> get_database_flags,
   get_elf_debug_file_directory |-> get_elf_debug_file_directory,
   list_folders |-> list_folders, get_imports |-> get_imports,
   get_exports |-> get_exports, get_entry_points |-> get_entry_points,
   get_entry_forwarder |-> get_entry_forwarder, list_names |-> list_names,
   demangle_name |-> demangle_name, demangle_at_address |-> demangle_at_address,
   list_demangled_names |-> list_demangled_names, get_strings |-> get_strings,
   find_code_by_string |-> find_code_by_string, search_bytes |-> search_bytes,
   search_text |-> search_text, find_immediate |-> find_immediate,
   get_processor_info |-> get_processor_info, get_register_name |-> get_register_name,
   get_instruction_list |-> get_instruction_list,
   list_flirt_signatures |-> list_flirt_signatures,
   list_type_libraries |-> list_type_libraries, list_snapshots |-> list_snapshots,
   get_source_parser |-> get_source_parser, list_enums |-> list_enums,
   get_enum_members |-> get_enum_members, list_structures |-> list_structures,
   get_structure |-> get_structure, list_local_types |-> list_local_types,
   get_local_type |-> get_local_type, convert_number |-> convert_number,
   evaluate_expression |-> evaluate_expression]
=============================================================================
