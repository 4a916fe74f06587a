----------------------------- MODULE MCSendPath -----------------------------
(* SendPath with the parameters of the configuration MCSendPath.cfg: one    *)
(* image of two chunks, as packets of eight and six bytes, two connections, *)
(* and one background thread: that another one may be inside send() is what *)
(* SendFails already allows at any time.                                    *)
EXTENDS SendPath
=============================================================================
