------------------------------ MODULE MCAccess ------------------------------
(***************************************************************************)
(* A good page, a small page that asks for a captcha at status 200, a page *)
(* that refuses twice, and a plain refusal.                                *)
(***************************************************************************)
EXTENDS Access

MCResponses ==
    {[status |-> 200, marks |-> {}, refusals |-> 0],
     [status |-> 200, marks |-> {"small", "captcha"}, refusals |-> 0],
     [status |-> 200, marks |-> {"challenge"}, refusals |-> 2],
     [status |-> 403, marks |-> {}, refusals |-> 0]}
=============================================================================
