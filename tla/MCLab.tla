--------------------------------- MODULE MCLab ---------------------------------
EXTENDS Lab

(* Three days with one excluded, a subject that is named twice and a rest  *)
(* of less than a session, no day left, and more sessions in a day than a  *)
(* plan's model holds.                                                     *)
ThreePlans ==
  LET Exams == [s \in {"physics"} |-> 10]
      Plan(last, excluded, minutes, preferred, subjects) ==
        [start |-> 1, end |-> last, excluded |-> excluded, minutes |-> minutes,
         preferred |-> preferred, subjects |-> subjects,
         weak |-> <<"limits", "waves">>, exams |-> Exams]
      Two == <<"arabic", "physics">>
  IN  {Plan(4, {2}, 219, 45, <<"arabic", "physics", "arabic">>),
       Plan(1, {1, 9}, 60, 30, Two), Plan(1, {}, 315, 15, Two)}

FourSections == <<"s1", "s2", "s3", "s4">>
================================================================================
