------------------------------- MODULE MCAta -------------------------------
(* Ata with registers of one bit, sector numbers of five and sectors of two
   words, for TLC: the numbers cross every register's border, the driver's own
   28 bits (here 4) and the end of its 32 (here 5). *)
EXTENDS Ata

MCOffsets == {0, 1, 3, 7, 14, 15, 31}

=============================================================================
