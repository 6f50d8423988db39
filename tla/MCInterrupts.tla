---------------------------- MODULE MCInterrupts ----------------------------
(* Interrupts for TLC.  The boot code, its gates, lines and vectors are those of
   the source; besides the timer, the keyboard and the disk there are a floppy
   drive on the master and a mouse on the slave, which the kernel leaves masked. *)
EXTENDS Interrupts
=============================================================================
