------------------------------ MODULE MCFields ------------------------------
(* Instances of Fields for TLC. *)
EXTENDS Fields

Optional(k) == {f \in FieldType : f.kind = k /\ ~f.req}
London == [offset |-> 0, summer |-> 0, more |-> 0, start |-> 0]
East   == [offset |-> 1, summer |-> 0, more |-> 0, start |-> 0]
West   == [offset |-> -1, summer |-> 0, more |-> 0, start |-> 0]
Winter == [offset |-> 1, summer |-> 14, more |-> 1, start |-> 10]
Summer == [offset |-> 1, summer |-> 14, more |-> 1, start |-> 20]

Year1000Value == -32

\* Every kind of field; times in every zone.
AllSetups == [field : FieldType, zone : {London}]
               \cup [field : Optional("time") \cup Optional("date"), zone : {East, West, Winter, Summer}]
=============================================================================
