----------------------------- MODULE MCWebScan -----------------------------
(* WebScan on small instances; the browsers and tasks are model values.    *)
EXTENDS WebScan
=============================================================================
