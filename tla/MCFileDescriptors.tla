-------------------------- MODULE MCFileDescriptors --------------------------
(***************************************************************************)
(* FileDescriptors on an image with one regular file of two bytes.         *)
(***************************************************************************)
EXTENDS FileDescriptors

MCRegular == {"frame"}
MCSize == [f \in MCRegular |-> 2]

=============================================================================
