------------------------------ MODULE MCFolderMan ------------------------------
(* The instance of FolderMan that is checked: two folders of one account. *)
EXTENDS FolderMan
=============================================================================
