----------------------------- MODULE SerialPort -----------------------------
(***************************************************************************)
(* marnav::io::serial as far as its users see it: a descriptor that open() *)
(* acquires, close() gives back, and without which read() throws.  open()  *)
(* and close() may be called any number of times; the destructor closes.   *)
(***************************************************************************)
EXTENDS Naturals

VARIABLES
  fd,          \* a descriptor is held (fd >= 0)
  descriptors  \* descriptors the process holds for this device

portVars == <<fd, descriptors>>

PortInit ==
  /\ fd = FALSE
  /\ descriptors = 0

\* open(): how is the outcome of the operating system's open.
PortOpen(how) ==
  \/ /\ fd /\ how = "ok"
     /\ UNCHANGED portVars
  \/ /\ ~fd /\ how = "ok"
     /\ fd' = TRUE
     /\ descriptors' = descriptors + 1
  \/ /\ ~fd /\ how = "error"
     /\ UNCHANGED portVars

\* close() and the destructor.
PortClose ==
  /\ fd' = FALSE
  /\ descriptors' = IF fd THEN descriptors - 1 ELSE descriptors

\* read() needs the descriptor.
PortReads == fd /\ UNCHANGED portVars
PortNotOpen == ~fd /\ UNCHANGED portVars
=============================================================================
