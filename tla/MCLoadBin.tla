----------------------------- MODULE MCLoadBin -----------------------------
(* Instances of LoadBin for TLC.                                           *)
EXTENDS LoadBin

Header(type, va, file, size, offset, flags) ==
  [p_type |-> type, p_va |-> va, p_file_size |-> file, p_mem_size |-> size,
   p_offset |-> offset, p_flags |-> flags]

\* Every alignment and every size up to two pages and a byte for the first
\* segment; the second has no bytes in the file, or only such, or is not for
\* loading, or reaches into the stack, or begins with it or within it.
SmallPrograms ==
  { <<Header("LOAD", va, file, size, 0, {"R", "X"}), second>> :
    va \in 3 .. 5, file \in 0 .. 7, size \in 0 .. 7,
    second \in { Header("LOAD", 9, 0, 3, 20, {"W"}), Header("LOAD", 10, 2, 2, 20, {"W"}),
                 Header("NOTE", 9, 2, 1, 20, {}),    Header("LOAD", 10, 1, 3, 20, {"W"}),
                 Header("LOAD", 12, 0, 1, 20, {"W"}), Header("LOAD", 15, 0, 1, 20, {"W"}) } }
=============================================================================
