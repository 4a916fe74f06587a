------------------------------ MODULE MCUartRx ------------------------------
(* UartRx with the parameters of the configurations MCUartRx_*.cfg.        *)
EXTENDS UartRx
=============================================================================
