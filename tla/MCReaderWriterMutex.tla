------------------------ MODULE MCReaderWriterMutex ------------------------
(* ReaderWriterMutex for TLC: the lock calls of three threads.             *)
EXTENDS ReaderWriterMutex
=============================================================================
