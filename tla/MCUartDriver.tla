---------------------------- MODULE MCUartDriver ----------------------------
(* UartDriver with the parameters of the configuration MCUartDriver.cfg:    *)
(* lines of two bytes, six characters with CR and LF, and a FIFO of three.  *)
EXTENDS UartDriver
=============================================================================
