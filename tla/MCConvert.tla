------------------------------ MODULE MCConvert ------------------------------
(* One file, one shape and one canvas, and every line of MaxWords words    *)
(* that the bounds let through; then every query of one file.              *)
EXTENDS Convert

=============================================================================
