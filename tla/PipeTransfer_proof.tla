------------------------- MODULE PipeTransfer_proof -------------------------
(***************************************************************************)
(* Proofs that every open descriptor has one owner, for any number of      *)
(* variables, descriptors and pipes, and whatever is transferred meanwhile;*)
(* that nothing is done to a file behind its owner's back; and that what   *)
(* append() has reported as a success is in the pipe, in order, for pipes  *)
(* of any capacity, data of any size and any number of failures, while the *)
(* variables that own the descriptors change.                              *)
(***************************************************************************)
EXTENDS PipeTransfer, TLAPS

-----------------------------------------------------------------------------
(* Facts about the values.                                                 *)

(* No descriptor is -1, and no file is Closed. *)
LEMMA Values ==
  /\ no_file_handle \notin Numbers
  /\ Closed \notin Ends
  /\ Closed \in Ends \cup {Closed}
BY NumbersAssumption DEF no_file_handle, Closed, Ends

(* Closing some numbers leaves a table. *)
LEMMA WithoutIsTable ==
  ASSUME TypeOK, NEW numbers
  PROVE  /\ Without(numbers) \in [Numbers -> Ends \cup {Closed}]
         /\ \A n \in Numbers :
              Without(numbers)[n] # Closed <=> table[n] # Closed /\ n \notin numbers
BY Values DEF TypeOK, Without

(***************************************************************************)
(* The inductive invariant.  A caller takes the number of a handle that he *)
(* thinks is not empty; MeantIsHeld says that it is not.                   *)
(***************************************************************************)
Owned == TypeOK /\ OneOwner /\ MeantIsHeld

-----------------------------------------------------------------------------
(* One lemma for every operation on a file_handle.                         *)

(* The swap of two handles. *)
LEMMA MoveAssignKeeps ==
  ASSUME Owned, NEW h \in Handles, NEW g \in Handles, MoveAssign(h, g)
  PROVE  Owned'
<1>1. /\ handle' \in [Handles -> Numbers \cup {no_file_handle}]
      /\ meant' \in [Handles -> Numbers \cup {no_file_handle}]
  BY DEF Owned, TypeOK, MoveAssign
<1>2. TypeOK'
  BY <1>1 DEF Owned, TypeOK, MoveAssign
<1>3. \A k \in Handles :
        /\ handle'[k] = IF k = h THEN handle[g] ELSE IF k = g THEN handle[h] ELSE handle[k]
        /\ meant'[k] = IF k = h THEN meant[g] ELSE IF k = g THEN no_file_handle ELSE meant[k]
  BY DEF Owned, TypeOK, MoveAssign
<1>a. h # g /\ loose' = loose /\ table' = table
  BY DEF MoveAssign
<1>b. OneOwner
  BY DEF Owned
<1>4. OneOwner'
  <2>1. \A k, l \in Handles : k # l /\ handle'[k] = handle'[l] => handle'[k] = no_file_handle
    <3> TAKE k, l \in Handles
    <3>1. \A i, j \in Handles : i # j /\ handle[i] = handle[j] => handle[i] = no_file_handle
      BY <1>b DEF OneOwner
    <3> QED
      BY <1>3, <1>a, <3>1
  <2>2. \A k \in Handles : handle'[k] \notin loose'
    BY <1>3, <1>a, <1>b DEF OneOwner
  <2>3. \A n : (\E k \in Handles : handle'[k] = n) <=> (\E k \in Handles : handle[k] = n)
    <3>1. ASSUME NEW k \in Handles PROVE \E l \in Handles : handle[l] = handle'[k]
      BY <1>3
    <3>2. ASSUME NEW k \in Handles PROVE \E l \in Handles : handle'[l] = handle[k]
      BY <1>3, <1>a
    <3> QED
      BY <3>1, <3>2
  <2> QED
    BY <1>a, <1>b, <2>1, <2>2, <2>3 DEF OneOwner
<1>5. MeantIsHeld'
  <2> SUFFICES ASSUME NEW k \in Handles, meant'[k] # no_file_handle
               PROVE  handle'[k] = meant'[k]
    BY DEF MeantIsHeld
  <2>1. \A l \in Handles : meant[l] # no_file_handle => handle[l] = meant[l]
    BY DEF Owned, MeantIsHeld
  <2>2. CASE k = h
    BY <1>3, <2>1, <2>2
  <2>3. CASE k = g /\ k # h
    BY <1>3, <2>3
  <2>4. CASE k # h /\ k # g
    BY <1>3, <2>1, <2>4
  <2> QED
    BY <2>2, <2>3, <2>4
<1> QED
  BY <1>2, <1>4, <1>5 DEF Owned

(***************************************************************************)
(* What has happened to a handle that is emptied: its number is closed, or *)
(* is in other hands now, and is in no other handle.                       *)
(***************************************************************************)
LEMMA OnlyHere ==
  ASSUME Owned, NEW h \in Handles
  PROVE  /\ \A k \in Handles : k # h /\ handle[h] # no_file_handle => handle[k] # handle[h]
         /\ handle[h] \in Numbers \cup {no_file_handle}
         /\ \A n \in Numbers : handle[h] = n => table[n] # Closed /\ n \notin loose
BY DEF Owned, OneOwner, TypeOK

(* The move constructor behind the end of another variable. *)
LEMMA MoveConstructKeeps ==
  ASSUME Owned, NEW h \in Handles, NEW g \in Handles, MoveConstruct(h, g)
  PROVE  Owned'
<1>1. TypeOK'
  <2>1. table' \in [Numbers -> Ends \cup {Closed}]
    BY WithoutIsTable DEF Owned, MoveConstruct
  <2>2. /\ handle' \in [Handles -> Numbers \cup {no_file_handle}]
        /\ meant' \in [Handles -> Numbers \cup {no_file_handle}]
    BY DEF Owned, TypeOK, MoveConstruct
  <2> QED
    BY <2>1, <2>2 DEF Owned, TypeOK, MoveConstruct
<1>2. \A k \in Handles :
        /\ handle'[k] = IF k = h THEN handle[g] ELSE IF k = g THEN no_file_handle ELSE handle[k]
        /\ meant'[k] = IF k = h THEN meant[g] ELSE IF k = g THEN no_file_handle ELSE meant[k]
  BY DEF Owned, TypeOK, MoveConstruct
<1>3. \A n \in Numbers : table'[n] # Closed <=> table[n] # Closed /\ n # handle[h]
  BY WithoutIsTable DEF Owned, MoveConstruct
<1>4. OneOwner'
  <2>1. \A k, l \in Handles : k # l /\ handle'[k] = handle'[l] => handle'[k] = no_file_handle
    <3> TAKE k, l \in Handles
    <3>1. \A i, j \in Handles : i # j /\ handle[i] = handle[j] => handle[i] = no_file_handle
      BY DEF Owned, OneOwner
    <3>2. h # g
      BY DEF MoveConstruct
    <3> QED
      BY <1>2, <3>1, <3>2
  <2>2. \A k \in Handles : handle'[k] \notin loose'
    BY <1>2, Values DEF Owned, OneOwner, TypeOK, MoveConstruct
  <2>3. \A n \in Numbers : (\E k \in Handles : handle'[k] = n)
                             <=> (\E k \in Handles : handle[k] = n) /\ n # handle[h]
    <3>1. ASSUME NEW n \in Numbers, NEW k \in Handles, handle'[k] = n
          PROVE  (\E l \in Handles : handle[l] = n) /\ n # handle[h]
      BY <1>2, <3>1, Values, OnlyHere DEF MoveConstruct
    <3>2. ASSUME NEW n \in Numbers, NEW k \in Handles, handle[k] = n, n # handle[h]
          PROVE  \E l \in Handles : handle'[l] = n
      BY <1>2, <3>2, Values DEF MoveConstruct
    <3> QED
      BY <3>1, <3>2
  <2>4. \A n \in Numbers : n = handle[h] => n \notin loose
    BY OnlyHere
  <2>5. loose' = loose
    BY DEF MoveConstruct
  <2>6. \A n \in Numbers :
          table'[n] # Closed <=> n \in loose' \/ \E k \in Handles : handle'[k] = n
    BY <1>3, <2>3, <2>4, <2>5 DEF Owned, OneOwner
  <2> QED
    BY <2>1, <2>2, <2>6 DEF OneOwner
<1>5. MeantIsHeld'
  <2> SUFFICES ASSUME NEW k \in Handles, meant'[k] # no_file_handle
               PROVE  handle'[k] = meant'[k]
    BY DEF MeantIsHeld
  <2>1. \A l \in Handles : meant[l] # no_file_handle => handle[l] = meant[l]
    BY DEF Owned, MeantIsHeld
  <2>2. CASE k = h
    BY <1>2, <2>1, <2>2
  <2>3. CASE k = g /\ k # h
    BY <1>2, <2>3
  <2>4. CASE k # h /\ k # g
    BY <1>2, <2>1, <2>4
  <2> QED
    BY <2>2, <2>3, <2>4
<1> QED
  BY <1>1, <1>4, <1>5 DEF Owned

(* close() *)
LEMMA CloseKeeps ==
  ASSUME Owned, NEW h \in Handles, Close(h)
  PROVE  Owned'
<1>1. TypeOK'
  <2>1. table' \in [Numbers -> Ends \cup {Closed}]
    BY WithoutIsTable DEF Owned, Close
  <2>2. /\ handle' \in [Handles -> Numbers \cup {no_file_handle}]
        /\ meant' \in [Handles -> Numbers \cup {no_file_handle}]
    BY DEF Owned, TypeOK, Close
  <2> QED
    BY <2>1, <2>2 DEF Owned, TypeOK, Close
<1>2. \A k \in Handles :
        /\ handle'[k] = IF k = h THEN no_file_handle ELSE handle[k]
        /\ meant'[k] = IF k = h THEN no_file_handle ELSE meant[k]
  BY DEF Owned, TypeOK, Close
<1>3. \A n \in Numbers : table'[n] # Closed <=> table[n] # Closed /\ n # handle[h]
  BY WithoutIsTable DEF Owned, Close
<1>4. OneOwner'
  <2>1. \A k, l \in Handles : k # l /\ handle'[k] = handle'[l] => handle'[k] = no_file_handle
    BY <1>2 DEF Owned, OneOwner
  <2>2. \A k \in Handles : handle'[k] \notin loose'
    BY <1>2, Values DEF Owned, OneOwner, TypeOK, Close
  <2>3. \A n \in Numbers : (\E k \in Handles : handle'[k] = n)
                             <=> (\E k \in Handles : handle[k] = n) /\ n # handle[h]
    <3>1. ASSUME NEW n \in Numbers, NEW k \in Handles, handle'[k] = n
          PROVE  (\E l \in Handles : handle[l] = n) /\ n # handle[h]
      BY <1>2, <3>1, Values, OnlyHere
    <3>2. ASSUME NEW n \in Numbers, NEW k \in Handles, handle[k] = n, n # handle[h]
          PROVE  \E l \in Handles : handle'[l] = n
      BY <1>2, <3>2
    <3> QED
      BY <3>1, <3>2
  <2>4. \A n \in Numbers : n = handle[h] => n \notin loose
    BY OnlyHere
  <2>5. loose' = loose
    BY DEF Close
  <2>6. \A n \in Numbers :
          table'[n] # Closed <=> n \in loose' \/ \E k \in Handles : handle'[k] = n
    BY <1>3, <2>3, <2>4, <2>5 DEF Owned, OneOwner
  <2> QED
    BY <2>1, <2>2, <2>6 DEF OneOwner
<1>5. MeantIsHeld'
  BY <1>2 DEF Owned, MeantIsHeld
<1> QED
  BY <1>1, <1>4, <1>5 DEF Owned

(* release(): the number goes from the handle to the caller. *)
LEMMA ReleaseKeeps ==
  ASSUME Owned, NEW h \in Handles, Release(h)
  PROVE  Owned'
<1>a. /\ handle[h] = meant[h] /\ meant[h] # no_file_handle
      /\ handle[h] \in Numbers
  BY DEF Owned, MeantIsHeld, TypeOK, Release
<1>1. TypeOK'
  <2>1. /\ handle' \in [Handles -> Numbers \cup {no_file_handle}]
        /\ meant' \in [Handles -> Numbers \cup {no_file_handle}]
    BY DEF Owned, TypeOK, Release
  <2> QED
    BY <1>a, <2>1 DEF Owned, TypeOK, Release
<1>2. \A k \in Handles :
        /\ handle'[k] = IF k = h THEN no_file_handle ELSE handle[k]
        /\ meant'[k] = IF k = h THEN no_file_handle ELSE meant[k]
  BY DEF Owned, TypeOK, Release
<1>3. table' = table /\ loose' = loose \cup {handle[h]}
  BY DEF Release
<1>4. OneOwner'
  <2>1. \A k, l \in Handles : k # l /\ handle'[k] = handle'[l] => handle'[k] = no_file_handle
    BY <1>2 DEF Owned, OneOwner
  <2>2. ASSUME NEW k \in Handles PROVE handle'[k] \notin loose'
    <3>1. CASE k = h
      BY <1>2, <1>3, <1>a, <3>1, Values DEF Owned, TypeOK
    <3>2. CASE k # h
      BY <1>2, <1>3, <1>a, <3>2, OnlyHere DEF Owned, OneOwner
    <3> QED
      BY <3>1, <3>2
  <2>3. \A n \in Numbers :
          (n \in loose' \/ \E k \in Handles : handle'[k] = n)
            <=> (n \in loose \/ \E k \in Handles : handle[k] = n)
    <3>1. ASSUME NEW n \in Numbers, NEW k \in Handles, handle'[k] = n
          PROVE  \E l \in Handles : handle[l] = n
      BY <1>2, <3>1, Values
    <3>2. ASSUME NEW n \in Numbers, NEW k \in Handles, handle[k] = n
          PROVE  n \in loose' \/ \E l \in Handles : handle'[l] = n
      BY <1>2, <1>3, <3>2
    <3>3. ASSUME NEW n \in Numbers, n \in loose'
          PROVE  n \in loose \/ \E k \in Handles : handle[k] = n
      BY <1>3, <3>3
    <3> QED
      BY <1>3, <3>1, <3>2, <3>3
  <2> QED
    BY <1>3, <2>1, <2>2, <2>3 DEF Owned, OneOwner
<1>5. MeantIsHeld'
  BY <1>2 DEF Owned, MeantIsHeld
<1> QED
  BY <1>1, <1>4, <1>5 DEF Owned

(* h = file_handle(n) *)
LEMMA WrapKeeps ==
  ASSUME Owned, NEW h \in Handles, NEW n \in Numbers, Wrap(h, n)
  PROVE  Owned'
<1>1. TypeOK'
  <2>1. table' \in [Numbers -> Ends \cup {Closed}]
    BY WithoutIsTable DEF Owned, Wrap
  <2>2. /\ handle' \in [Handles -> Numbers \cup {no_file_handle}]
        /\ meant' \in [Handles -> Numbers \cup {no_file_handle}]
    BY DEF Owned, TypeOK, Wrap
  <2> QED
    BY <2>1, <2>2 DEF Owned, TypeOK, Wrap
<1>2. \A k \in Handles :
        /\ handle'[k] = IF k = h THEN n ELSE handle[k]
        /\ meant'[k] = IF k = h THEN n ELSE meant[k]
  BY DEF Owned, TypeOK, Wrap
<1>3. \A m \in Numbers : table'[m] # Closed <=> table[m] # Closed /\ m # handle[h]
  BY WithoutIsTable DEF Owned, Wrap
<1>a. n \in loose /\ loose' = loose \ {n} /\ n # no_file_handle
  BY Values DEF Wrap
<1>b. \A k \in Handles : handle[k] # n
  BY <1>a DEF Owned, OneOwner
<1>4. OneOwner'
  <2>1. \A k, l \in Handles : k # l /\ handle'[k] = handle'[l] => handle'[k] = no_file_handle
    BY <1>2, <1>b DEF Owned, OneOwner
  <2>2. \A k \in Handles : handle'[k] \notin loose'
    BY <1>2, <1>a DEF Owned, OneOwner
  <2>3. ASSUME NEW m \in Numbers
        PROVE  table'[m] # Closed <=> m \in loose' \/ \E k \in Handles : handle'[k] = m
    <3>0. table[m] # Closed <=> m \in loose \/ \E k \in Handles : handle[k] = m
      BY DEF Owned, OneOwner
    <3>1. CASE m = n
      BY <1>2, <1>3, <1>a, <1>b, <3>0, <3>1
    <3>2. CASE m # n /\ m = handle[h]
      <4>1. m \notin loose'
        BY <1>a, <3>2, OnlyHere
      <4>2. \A k \in Handles : handle'[k] # m
        BY <1>2, <3>2, Values, OnlyHere
      <4> QED
        BY <1>3, <3>2, <4>1, <4>2
    <3>3. CASE m # n /\ m # handle[h]
      <4>1. (\E k \in Handles : handle'[k] = m) <=> (\E k \in Handles : handle[k] = m)
        BY <1>2, <3>3
      <4> QED
        BY <1>3, <1>a, <3>0, <3>3, <4>1
    <3> QED
      BY <3>1, <3>2, <3>3
  <2> QED
    BY <2>1, <2>2, <2>3 DEF OneOwner
<1>5. MeantIsHeld'
  BY <1>2 DEF Owned, MeantIsHeld
<1> QED
  BY <1>1, <1>4, <1>5 DEF Owned

-----------------------------------------------------------------------------
(* One lemma for every operation on a pipe.                                *)

(* The members of a variable. *)
LEMMA Members ==
  /\ \A v \in Variables, side \in Sides : <<v, side>> \in Handles
  /\ \A h \in Handles : /\ h[1] \in Variables /\ h[2] \in Sides
                        /\ h = <<h[1], h[2]>>
BY DEF Handles

(* pipe::operator=(pipe &&) exchanges members, a permutation of handles. *)
LEMMA MoveAssignPipeKeeps ==
  ASSUME Owned, NEW v \in Variables, NEW u \in Variables, MoveAssignPipe(v, u)
  PROVE  Owned'
<1> DEFINE Other(h) == IF h[1] = v THEN <<u, h[2]>>
                       ELSE IF h[1] = u THEN <<v, h[2]>> ELSE h
<1>a. v # u /\ loose' = loose /\ table' = table /\ made' = made
  BY DEF MoveAssignPipe
<1>1. \A h \in Handles : Other(h) \in Handles
  BY Members
<1>2. \A h \in Handles : Other(Other(h)) = h
  <2> TAKE h \in Handles
  <2>1. h = <<h[1], h[2]>>
    BY Members
  <2>2. CASE h[1] = v
    BY <1>a, <2>1, <2>2
  <2>3. CASE h[1] = u
    BY <1>a, <2>1, <2>3
  <2>4. CASE h[1] # v /\ h[1] # u
    BY <2>4
  <2> QED
    BY <2>2, <2>3, <2>4
<1>3. \A h \in Handles : handle'[h] = handle[Other(h)]
  BY DEF MoveAssignPipe
<1>4. \A h \in Handles : meant'[h] = no_file_handle \/ meant'[h] = meant[Other(h)]
  BY DEF MoveAssignPipe
<1>5. TypeOK'
  <2>1. handle' \in [Handles -> Numbers \cup {no_file_handle}]
    <3>1. handle' = [h \in Handles |-> handle[Other(h)]]
      BY DEF MoveAssignPipe
    <3> QED
      BY <1>1, <3>1 DEF Owned, TypeOK
  <2>2. meant' \in [Handles -> Numbers \cup {no_file_handle}]
    <3>1. DOMAIN meant' = Handles /\ meant' = [h \in Handles |-> meant'[h]]
      BY DEF MoveAssignPipe
    <3>2. \A h \in Handles : meant'[h] \in Numbers \cup {no_file_handle}
      BY <1>1, <1>4 DEF Owned, TypeOK
    <3> QED
      BY <3>1, <3>2
  <2> QED
    BY <1>a, <2>1, <2>2 DEF Owned, TypeOK
<1> HIDE DEF Other
<1>6. OneOwner'
  <2>1. \A k, l \in Handles : k # l /\ handle'[k] = handle'[l] => handle'[k] = no_file_handle
    <3> TAKE k, l \in Handles
    <3>1. k # l => Other(k) # Other(l)
      BY <1>2
    <3>2. Other(k) \in Handles /\ Other(l) \in Handles
      BY <1>1
    <3> QED
      BY <1>3, <3>1, <3>2 DEF Owned, OneOwner
  <2>2. \A k \in Handles : handle'[k] \notin loose'
    BY <1>1, <1>3, <1>a DEF Owned, OneOwner
  <2>3. \A n : (\E k \in Handles : handle'[k] = n) <=> (\E k \in Handles : handle[k] = n)
    <3>1. ASSUME NEW k \in Handles PROVE \E l \in Handles : handle[l] = handle'[k]
      BY <1>1, <1>3
    <3>2. ASSUME NEW k \in Handles PROVE \E l \in Handles : handle'[l] = handle[k]
      BY <1>1, <1>2, <1>3
    <3> QED
      BY <3>1, <3>2
  <2> QED
    BY <1>a, <2>1, <2>2, <2>3 DEF Owned, OneOwner
<1>7. MeantIsHeld'
  BY <1>1, <1>3, <1>4 DEF Owned, MeantIsHeld
<1> QED
  BY <1>5, <1>6, <1>7 DEF Owned

(* pipe::close() *)
LEMMA ClosePipeKeeps ==
  ASSUME Owned, NEW v \in Variables, ClosePipe(v)
  PROVE  Owned'
<1> DEFINE numbers == {handle[<<v, side>>] : side \in Sides}
<1>0. /\ \A h \in Handles : h[1] = v => handle[h] \in numbers
      /\ \A n \in numbers : \E h \in Handles : h[1] = v /\ handle[h] = n
  <2>1. ASSUME NEW h \in Handles, h[1] = v PROVE handle[h] \in numbers
    <3>1. h = <<v, h[2]>> /\ h[2] \in Sides
      BY <2>1, Members
    <3> QED
      BY <3>1
  <2>2. ASSUME NEW side \in Sides
        PROVE  <<v, side>> \in Handles /\ <<v, side>>[1] = v
    BY Members
  <2> QED
    BY <2>1, <2>2
<1>1. table' = Without(numbers)
  BY DEF ClosePipe
<1> HIDE DEF numbers
<1>2. \A k \in Handles :
        /\ handle'[k] = IF k[1] = v THEN no_file_handle ELSE handle[k]
        /\ meant'[k] = IF k[1] = v THEN no_file_handle ELSE meant[k]
  BY DEF ClosePipe
<1>3. \A n \in Numbers : table'[n] # Closed <=> table[n] # Closed /\ n \notin numbers
  BY <1>1, WithoutIsTable DEF Owned
<1>a. loose' = loose /\ made' = made
  BY DEF ClosePipe
<1>4. TypeOK'
  <2>1. table' \in [Numbers -> Ends \cup {Closed}]
    BY <1>1, WithoutIsTable DEF Owned
  <2>2. handle' \in [Handles -> Numbers \cup {no_file_handle}]
    BY DEF Owned, TypeOK, ClosePipe
  <2>3. meant' \in [Handles -> Numbers \cup {no_file_handle}]
    BY DEF Owned, TypeOK, ClosePipe
  <2> QED
    BY <1>a, <2>1, <2>2, <2>3 DEF Owned, TypeOK
<1>5. OneOwner'
  <2>1. \A k, l \in Handles : k # l /\ handle'[k] = handle'[l] => handle'[k] = no_file_handle
    BY <1>2 DEF Owned, OneOwner
  <2>2. \A k \in Handles : handle'[k] \notin loose'
    BY <1>2, <1>a, Values DEF Owned, OneOwner, TypeOK
  <2>3. ASSUME NEW n \in Numbers
        PROVE  table'[n] # Closed <=> n \in loose' \/ \E k \in Handles : handle'[k] = n
    <3>0. table[n] # Closed <=> n \in loose \/ \E k \in Handles : handle[k] = n
      BY DEF Owned, OneOwner
    <3>1. CASE n \in numbers
      <4>1. PICK h \in Handles : h[1] = v /\ handle[h] = n
        BY <1>0, <3>1
      <4>2. n \notin loose /\ n # no_file_handle
        BY <4>1, Values, OnlyHere
      <4>3. \A k \in Handles : handle'[k] # n
        BY <1>2, <4>1, <4>2 DEF Owned, OneOwner
      <4> QED
        BY <1>3, <1>a, <3>1, <4>2, <4>3
    <3>2. CASE n \notin numbers
      <4>1. (\E k \in Handles : handle'[k] = n) <=> (\E k \in Handles : handle[k] = n)
        <5>1. ASSUME NEW k \in Handles, handle'[k] = n PROVE handle[k] = n
          BY <1>2, <5>1, Values
        <5>2. ASSUME NEW k \in Handles, handle[k] = n PROVE handle'[k] = n
          BY <1>0, <1>2, <3>2, <5>2
        <5> QED
          BY <5>1, <5>2
      <4> QED
        BY <1>3, <1>a, <3>0, <3>2, <4>1
    <3> QED
      BY <3>1, <3>2
  <2> QED
    BY <2>1, <2>2, <2>3 DEF OneOwner
<1>6. MeantIsHeld'
  BY <1>2 DEF Owned, MeantIsHeld
<1> QED
  BY <1>4, <1>5, <1>6 DEF Owned

(* v = make_pipe(): two free numbers come in, what v had is closed. *)
LEMMA MakePipeKeeps ==
  ASSUME Owned, NEW v \in Variables, MakePipe(v)
  PROVE  Owned'
<1> DEFINE W == <<v, "write">>
           R == <<v, "read">>
           old == {handle[W], handle[R]}
<1>0. W \in Handles /\ R \in Handles /\ W # R
  BY Members DEF Sides
<1>1. PICK r \in Numbers, w \in Numbers :
        /\ table[r] = Closed /\ table[w] = Closed /\ r < w
        /\ table' = [n \in Numbers |->
             IF n = r THEN <<made', "read">> ELSE IF n = w THEN <<made', "write">>
             ELSE Without({handle[W], handle[R]})[n]]
        /\ handle' = [handle EXCEPT ![W] = w, ![R] = r]
        /\ meant' = [meant EXCEPT ![W] = w, ![R] = r]
  BY DEF MakePipe
<1>2. /\ loose' = loose
      /\ made' \in 1..MaxPipes
      /\ r # w /\ r # no_file_handle /\ w # no_file_handle
  <2>1. r \in Nat /\ w \in Nat
    BY NumbersAssumption
  <2> QED
    BY <1>1, <2>1, Values, MaxPipesAssumption DEF MakePipe, Owned, TypeOK
<1>3. /\ <<made', "read">> \in Ends /\ <<made', "write">> \in Ends
      /\ <<made', "read">> # Closed /\ <<made', "write">> # Closed
  BY <1>2, Values DEF Ends, Sides
<1>4. \A k \in Handles :
        /\ handle'[k] = IF k = R THEN r ELSE IF k = W THEN w ELSE handle[k]
        /\ meant'[k] = IF k = R THEN r ELSE IF k = W THEN w ELSE meant[k]
  BY <1>0, <1>1 DEF Owned, TypeOK
<1>5. /\ r \notin loose /\ w \notin loose
      /\ \A k \in Handles : handle[k] # r /\ handle[k] # w
  BY <1>1 DEF Owned, OneOwner
<1>6. TypeOK'
  <2>1. table' \in [Numbers -> Ends \cup {Closed}]
    <3>1. Without(old) \in [Numbers -> Ends \cup {Closed}]
      BY WithoutIsTable DEF Owned
    <3> QED
      BY <1>1, <1>3, <3>1
  <2>2. /\ handle' \in [Handles -> Numbers \cup {no_file_handle}]
        /\ meant' \in [Handles -> Numbers \cup {no_file_handle}]
    BY <1>1 DEF Owned, TypeOK
  <2>3. made' \in 0..MaxPipes
    BY <1>2, MaxPipesAssumption
  <2> QED
    BY <1>2, <2>1, <2>2, <2>3 DEF Owned, TypeOK
<1>7. \A n \in Numbers : table'[n] # Closed <=>
        n = r \/ n = w \/ (table[n] # Closed /\ n # handle[W] /\ n # handle[R])
  <2>1. \A n \in Numbers :
          Without(old)[n] # Closed <=> table[n] # Closed /\ n \notin old
    BY WithoutIsTable DEF Owned
  <2>2. \A n \in Numbers : table'[n] = IF n = r THEN <<made', "read">>
                                       ELSE IF n = w THEN <<made', "write">>
                                       ELSE Without(old)[n]
    BY <1>1
  <2> QED
    BY <1>3, <2>1, <2>2
<1>8. OneOwner'
  <2>1. \A k, l \in Handles : k # l /\ handle'[k] = handle'[l] => handle'[k] = no_file_handle
    <3> TAKE k, l \in Handles
    <3>1. \A i, j \in Handles : i # j /\ handle[i] = handle[j] => handle[i] = no_file_handle
      BY DEF Owned, OneOwner
    <3> QED
      BY <1>0, <1>2, <1>4, <1>5, <3>1
  <2>2. \A k \in Handles : handle'[k] \notin loose'
    BY <1>2, <1>4, <1>5 DEF Owned, OneOwner
  <2>3. ASSUME NEW n \in Numbers
        PROVE  table'[n] # Closed <=> n \in loose' \/ \E k \in Handles : handle'[k] = n
    <3>0. table[n] # Closed <=> n \in loose \/ \E k \in Handles : handle[k] = n
      BY DEF Owned, OneOwner
    <3>1. CASE n = r \/ n = w
      BY <1>0, <1>4, <1>7, <3>1
    <3>2. CASE n # r /\ n # w /\ (n = handle[W] \/ n = handle[R])
      <4>1. n \notin loose /\ n # no_file_handle
        BY <1>0, <3>2, Values, OnlyHere
      <4>2. \A k \in Handles : handle[k] = n => k = W \/ k = R
        BY <1>0, <3>2, <4>1, OnlyHere
      <4>3. \A k \in Handles : handle'[k] # n
        BY <1>4, <3>2, <4>2
      <4> QED
        BY <1>2, <1>7, <3>2, <4>1, <4>3
    <3>3. CASE n # r /\ n # w /\ n # handle[W] /\ n # handle[R]
      <4>1. (\E k \in Handles : handle'[k] = n) <=> (\E k \in Handles : handle[k] = n)
        <5>1. ASSUME NEW k \in Handles, handle'[k] = n PROVE handle[k] = n
          BY <1>4, <3>3, <5>1
        <5>2. ASSUME NEW k \in Handles, handle[k] = n PROVE handle'[k] = n
          BY <1>4, <3>3, <5>2
        <5> QED
          BY <5>1, <5>2
      <4> QED
        BY <1>2, <1>7, <3>0, <3>3, <4>1
    <3> QED
      BY <3>1, <3>2, <3>3
  <2> QED
    BY <2>1, <2>2, <2>3 DEF OneOwner
<1>9. MeantIsHeld'
  BY <1>4 DEF Owned, MeantIsHeld
<1> QED
  BY <1>6, <1>8, <1>9 DEF Owned

-----------------------------------------------------------------------------

(* Every step leaves every descriptor with one owner. *)
LEMMA StepKeepsOwned ==
  ASSUME Owned, [Next]_files
  PROVE  Owned'
<1>1. ASSUME NEW v \in Variables, NEW side \in Sides, NEW u \in Variables,
             \/ MoveAssign(<<v, side>>, <<u, side>>)
             \/ MoveConstruct(<<v, side>>, <<u, side>>)
      PROVE  Owned'
  BY <1>1, Members, MoveAssignKeeps, MoveConstructKeeps
<1>2. ASSUME NEW v \in Variables, NEW side \in Sides,
             Close(<<v, side>>) \/ Release(<<v, side>>)
      PROVE  Owned'
  BY <1>2, Members, CloseKeeps, ReleaseKeeps
<1>3. ASSUME NEW v \in Variables, NEW side \in Sides, NEW n \in Numbers,
             Wrap(<<v, side>>, n)
      PROVE  Owned'
  BY <1>3, Members, WrapKeeps
<1>4. ASSUME NEW v \in Variables, MakePipe(v) \/ ClosePipe(v)
      PROVE  Owned'
  BY <1>4, MakePipeKeeps, ClosePipeKeeps
<1>5. ASSUME NEW v \in Variables, NEW u \in Variables, MoveAssignPipe(v, u)
      PROVE  Owned'
  BY <1>5, MoveAssignPipeKeeps
<1>6. CASE UNCHANGED files
  BY <1>6 DEF files, Owned, TypeOK, OneOwner, MeantIsHeld
<1> QED
  BY <1>1, <1>2, <1>3, <1>4, <1>5, <1>6 DEF Next

(* At the beginning there is nothing to own. *)
LEMMA InitOwned == Init => Owned
<1> SUFFICES ASSUME Init PROVE Owned
  OBVIOUS
<1>1. TypeOK
  BY Values, MaxPipesAssumption DEF Init, TypeOK
<1>2. OneOwner
  BY Values DEF Init, OneOwner
<1>3. MeantIsHeld
  BY DEF Init, MeantIsHeld
<1> QED
  BY <1>1, <1>2, <1>3 DEF Owned

(***************************************************************************)
(* However handles and pipes are made, moved, closed, released and wrapped *)
(* again: no two of them have the same descriptor, none has one that is    *)
(* closed, and no open one is without an owner.                            *)
(***************************************************************************)
THEOREM OwnersCorrect == Spec => []OneOwner
<1>1. Owned /\ [Next]_files => Owned'
  BY StepKeepsOwned
<1>2. Owned => OneOwner
  BY DEF Owned
<1> QED
  BY InitOwned, <1>1, <1>2, PTL DEF Spec

(* Sinks and readers use descriptors and leave them where they are. *)
LEMMA TransferStep == [TransferNext]_vars => [Next]_files
<1>1. Own => Next
  BY DEF Own
<1>2. \A h \in Handles : MakeSink(h) \/ StartReading(h) => UNCHANGED files
  BY DEF MakeSink, StartReading
<1>3. \A n \in Sizes : StartAppend(n) => UNCHANGED files
  BY DEF StartAppend
<1>4. Write => UNCHANGED files
  BY DEF Write, WriteSome, WriteNothing, WriteFails
<1>5. Read => UNCHANGED files
  BY DEF Read, ReadSome, ReadEnd
<1>6. UNCHANGED vars => UNCHANGED files
  BY DEF vars
<1> QED
  BY <1>1, <1>2, <1>3, <1>4, <1>5, <1>6 DEF TransferNext

(***************************************************************************)
(* The same while bytes are written and read through raw numbers.          *)
(***************************************************************************)
THEOREM OwnersCorrectInTransfer == TransferSpec => []OneOwner
<1>1. Owned /\ [TransferNext]_vars => Owned'
  BY StepKeepsOwned, TransferStep
<1>2. Owned => OneOwner
  BY DEF Owned
<1>3. TransferInit => Owned
  BY InitOwned DEF TransferInit
<1> QED
  BY <1>1, <1>2, <1>3, PTL DEF TransferSpec

-----------------------------------------------------------------------------
(* What the caller relies on stays.                                        *)

(* A number that the caller relies on is open, and only where he thinks.   *)
LEMMA KnownIsOpen ==
  ASSUME Owned, NEW n \in Known
  PROVE  n \in Numbers /\ table[n] # Closed
<1>1. CASE n \in loose
  BY <1>1 DEF Owned, TypeOK, OneOwner
<1>2. CASE n \notin loose
  <2>1. PICK h \in Handles : meant[h] = n
    BY <1>2 DEF Known
  <2>2. handle[h] = n /\ n # no_file_handle
    BY <2>1 DEF Known, Owned, MeantIsHeld
  <2>3. n \in Numbers
    BY <2>2 DEF Owned, TypeOK
  <2> QED
    BY <2>2, <2>3 DEF Owned, OneOwner
<1> QED
  BY <1>1, <1>2

(* Nobody but its owner is thought to have the number of a handle. *)
LEMMA OnlyTheOwner ==
  ASSUME Owned, NEW h \in Handles, NEW n \in Numbers, handle[h] = n
  PROVE  n \notin loose /\ \A k \in Handles : meant[k] = n => k = h
<1>1. n # no_file_handle
  BY Values
<1> QED
  BY <1>1 DEF Owned, OneOwner, MeantIsHeld

(* Closing leaves the other numbers alone. *)
LEMMA WithoutLeaves ==
  ASSUME NEW numbers
  PROVE  \A n \in Numbers : n \notin numbers => Without(numbers)[n] = table[n]
BY DEF Without

(* The operations of a handle, which close at most what is in it. *)
LEMMA MoveConstructLeavesFiles ==
  ASSUME Owned, NEW h \in Handles, NEW g \in Handles, MoveConstruct(h, g)
  PROVE  \A n \in Known \cap Known' : table'[n] = table[n]
<1> SUFFICES ASSUME NEW n \in Known, n \in Known' PROVE n # handle[h]
  BY KnownIsOpen, WithoutLeaves DEF MoveConstruct
<1> SUFFICES ASSUME n = handle[h] PROVE FALSE
  OBVIOUS
<1>1. n \in Numbers /\ n # no_file_handle
  BY KnownIsOpen, Values
<1>2. n \notin loose /\ \A k \in Handles : meant[k] = n => k = h
  BY <1>1, OnlyTheOwner
<1>3. \A k \in Handles : meant'[k] # n
  <2>1. \A k \in Handles :
          meant'[k] = IF k = h THEN meant[g] ELSE IF k = g THEN no_file_handle ELSE meant[k]
    BY DEF Owned, TypeOK, MoveConstruct
  <2> QED
    BY <1>1, <1>2, <2>1 DEF MoveConstruct
<1> QED
  BY <1>2, <1>3 DEF Known, MoveConstruct

LEMMA CloseLeavesFiles ==
  ASSUME Owned, NEW h \in Handles, Close(h)
  PROVE  \A n \in Known \cap Known' : table'[n] = table[n]
<1> SUFFICES ASSUME NEW n \in Known, n \in Known' PROVE n # handle[h]
  BY KnownIsOpen, WithoutLeaves DEF Close
<1> SUFFICES ASSUME n = handle[h] PROVE FALSE
  OBVIOUS
<1>1. n \in Numbers /\ n # no_file_handle
  BY KnownIsOpen, Values
<1>2. n \notin loose /\ \A k \in Handles : meant[k] = n => k = h
  BY <1>1, OnlyTheOwner
<1>3. \A k \in Handles : meant'[k] # n
  BY <1>1, <1>2 DEF Owned, TypeOK, Close
<1> QED
  BY <1>2, <1>3 DEF Known, Close

LEMMA WrapLeavesFiles ==
  ASSUME Owned, NEW h \in Handles, NEW m \in Numbers, Wrap(h, m)
  PROVE  \A n \in Known \cap Known' : table'[n] = table[n]
<1> SUFFICES ASSUME NEW n \in Known, n \in Known' PROVE n # handle[h]
  BY KnownIsOpen, WithoutLeaves DEF Wrap
<1> SUFFICES ASSUME n = handle[h] PROVE FALSE
  OBVIOUS
<1>1. n \in Numbers /\ n # no_file_handle
  BY KnownIsOpen, Values
<1>2. n \notin loose /\ \A k \in Handles : meant[k] = n => k = h
  BY <1>1, OnlyTheOwner
<1>3. \A k \in Handles : meant'[k] # n
  BY <1>1, <1>2 DEF Owned, TypeOK, Wrap
<1> QED
  BY <1>2, <1>3 DEF Known, Wrap

(* The operations of a pipe. *)
LEMMA ClosePipeLeavesFiles ==
  ASSUME Owned, NEW v \in Variables, ClosePipe(v)
  PROVE  \A n \in Known \cap Known' : table'[n] = table[n]
<1> DEFINE numbers == {handle[<<v, side>>] : side \in Sides}
<1>0. table' = Without(numbers)
  BY DEF ClosePipe
<1> HIDE DEF numbers
<1> SUFFICES ASSUME NEW n \in Known, n \in Known' PROVE n \notin numbers
  BY <1>0, KnownIsOpen, WithoutLeaves
<1> SUFFICES ASSUME n \in numbers PROVE FALSE
  OBVIOUS
<1>1. n \in Numbers /\ n # no_file_handle
  BY KnownIsOpen, Values
<1>2. PICK h \in Handles : h[1] = v /\ handle[h] = n
  BY Members DEF numbers
<1>3. n \notin loose /\ \A k \in Handles : meant[k] = n => k = h
  BY <1>1, <1>2, OnlyTheOwner
<1>4. \A k \in Handles : meant'[k] # n
  BY <1>1, <1>2, <1>3 DEF ClosePipe
<1> QED
  BY <1>3, <1>4 DEF Known, ClosePipe

LEMMA MakePipeLeavesFiles ==
  ASSUME Owned, NEW v \in Variables, MakePipe(v)
  PROVE  \A n \in Known \cap Known' : table'[n] = table[n]
<1> DEFINE W == <<v, "write">>
           R == <<v, "read">>
<1>0. W \in Handles /\ R \in Handles /\ W # R
  BY Members DEF Sides
<1>1. PICK r \in Numbers, w \in Numbers :
        /\ table[r] = Closed /\ table[w] = Closed
        /\ table' = [n \in Numbers |->
             IF n = r THEN <<made', "read">> ELSE IF n = w THEN <<made', "write">>
             ELSE Without({handle[W], handle[R]})[n]]
        /\ meant' = [meant EXCEPT ![W] = w, ![R] = r]
  BY DEF MakePipe
<1> SUFFICES ASSUME NEW n \in Known, n \in Known' PROVE table'[n] = table[n]
  OBVIOUS
<1>2. n \in Numbers /\ table[n] # Closed /\ n # no_file_handle
  BY KnownIsOpen, Values
<1>3. n # r /\ n # w
  BY <1>1, <1>2
<1>4. n # handle[W] /\ n # handle[R]
  <2> SUFFICES ASSUME NEW h \in {W, R}, n = handle[h] PROVE FALSE
    OBVIOUS
  <2>1. n \notin loose /\ \A k \in Handles : meant[k] = n => k = h
    BY <1>0, <1>2, OnlyTheOwner
  <2>2. \A k \in Handles : meant'[k] = IF k = R THEN r ELSE IF k = W THEN w ELSE meant[k]
    BY <1>0, <1>1 DEF Owned, TypeOK
  <2>3. \A k \in Handles : meant'[k] # n
    BY <1>3, <2>1, <2>2
  <2> QED
    BY <2>1, <2>3 DEF Known, MakePipe
<1> QED
  BY <1>1, <1>2, <1>3, <1>4, WithoutLeaves

LEMMA StepLeavesFiles ==
  ASSUME Owned, [Next]_files
  PROVE  [\A n \in Known \cap Known' : table'[n] = table[n]]_files
<1>1. ASSUME NEW v \in Variables, NEW side \in Sides, NEW u \in Variables,
             \/ MoveAssign(<<v, side>>, <<u, side>>)
             \/ MoveConstruct(<<v, side>>, <<u, side>>)
      PROVE  \A n \in Known \cap Known' : table'[n] = table[n]
  <2>1. CASE MoveAssign(<<v, side>>, <<u, side>>)
    BY <2>1 DEF MoveAssign
  <2>2. CASE MoveConstruct(<<v, side>>, <<u, side>>)
    BY <2>2, Members, MoveConstructLeavesFiles
  <2> QED
    BY <1>1, <2>1, <2>2
<1>2. ASSUME NEW v \in Variables, NEW side \in Sides,
             Close(<<v, side>>) \/ Release(<<v, side>>)
      PROVE  \A n \in Known \cap Known' : table'[n] = table[n]
  <2>1. CASE Close(<<v, side>>)
    BY <2>1, Members, CloseLeavesFiles
  <2>2. CASE Release(<<v, side>>)
    BY <2>2 DEF Release
  <2> QED
    BY <1>2, <2>1, <2>2
<1>3. ASSUME NEW v \in Variables, NEW side \in Sides, NEW m \in Numbers,
             Wrap(<<v, side>>, m)
      PROVE  \A n \in Known \cap Known' : table'[n] = table[n]
  BY <1>3, Members, WrapLeavesFiles
<1>4. ASSUME NEW v \in Variables, MakePipe(v) \/ ClosePipe(v)
      PROVE  \A n \in Known \cap Known' : table'[n] = table[n]
  BY <1>4, MakePipeLeavesFiles, ClosePipeLeavesFiles
<1>5. ASSUME NEW v \in Variables, NEW u \in Variables, MoveAssignPipe(v, u)
      PROVE  \A n \in Known \cap Known' : table'[n] = table[n]
  BY <1>5 DEF MoveAssignPipe
<1> QED
  BY <1>1, <1>2, <1>3, <1>4, <1>5 DEF Next

(***************************************************************************)
(* No operation on one variable closes or replaces a file that the caller  *)
(* thinks is in another one, or has released, although moves leave numbers *)
(* in variables that look empty.                                           *)
(***************************************************************************)
THEOREM FilesStayCorrect == TransferSpec => FilesStay
<1>1. Owned /\ [TransferNext]_vars => Owned'
  BY StepKeepsOwned, TransferStep
<1>2. TransferInit => Owned
  BY InitOwned DEF TransferInit
<1>3. Owned /\ [TransferNext]_vars => [\A n \in Known \cap Known' : table'[n] = table[n]]_files
  BY StepLeavesFiles, TransferStep
<1> QED
  BY <1>1, <1>2, <1>3, PTL DEF TransferSpec, FilesStay

-----------------------------------------------------------------------------
(* The transfer.                                                           *)

(* What has landed is a sequence of bytes of pipes. *)
TransferTypes ==
  /\ file \in Numbers \cup {no_file_handle}
  /\ target \in 0..MaxPipes
  /\ writing \in BOOLEAN
  /\ size \in Nat
  /\ total \in Nat
  /\ appended \in Nat
  /\ landed \in Seq((0..MaxPipes) \X Nat)
  /\ short \in BOOLEAN
  /\ failures \in Nat
  /\ stale \in BOOLEAN

(* append() knows how far it is; there is nothing to write without a sink. *)
Writing ==
  /\ total <= size
  /\ ~writing => size = 0 /\ total = 0
  /\ target = 0 => ~writing /\ landed = <<>> /\ appended = 0

(* The number in the sink is that of the pipe it was made for. *)
SinkIsFresh ==
  target # 0 /\ ~stale => file \in Numbers /\ table[file] = <<target, "write">>

Landed(b) == \E i \in 1..Len(landed) : landed[i][2] = b

(* Where the bytes are, up to the one that is written next. *)
BytesHaveLanded ==
  ~stale =>
    /\ \A i \in 1..Len(landed) : landed[i][1] = target
    /\ short \/ \A i \in 1..Len(landed) :
         \A b \in 1 .. landed[i][2] - 1 : \E j \in 1 .. i - 1 : landed[j][2] = b
    /\ short \/ \A b \in 1 .. appended + total : Landed(b)
    /\ failures = 0 /\ ~short => Len(landed) = appended + total

TransferInv == Owned /\ TransferTypes /\ Writing /\ SinkIsFresh /\ BytesHaveLanded

-----------------------------------------------------------------------------

(* The invariant is stronger than the property. *)
LEMMA InvImplies == TransferInv => AppendedHasLanded
<1> SUFFICES ASSUME TransferInv, ~stale PROVE
      /\ \A i \in 1..Len(landed) :
           /\ landed[i][1] = target
           /\ short \/ \A b \in 1 .. landed[i][2] - 1 : \E j \in 1 .. i - 1 : landed[j][2] = b
      /\ short \/ \A b \in 1..appended : \E i \in 1..Len(landed) : landed[i][2] = b
      /\ failures = 0 /\ ~short => Len(landed) = appended + total
  BY DEF AppendedHasLanded
<1>1. appended \in Nat /\ total \in Nat
  BY DEF TransferInv, TransferTypes
<1>2. \A b \in 1..appended : b \in 1 .. appended + total
  BY <1>1
<1> QED
  BY <1>2 DEF TransferInv, BytesHaveLanded, Landed

(* Nothing has been written at first. *)
LEMMA InitTransferInv == TransferInit => TransferInv
<1> SUFFICES ASSUME TransferInit PROVE TransferInv
  OBVIOUS
<1>1. Owned
  BY InitOwned DEF TransferInit
<1>2. TransferTypes
  <2>1. 0 \in 0..MaxPipes
    BY MaxPipesAssumption
  <2>2. <<>> \in Seq((0..MaxPipes) \X Nat)
    OBVIOUS
  <2> QED
    BY <2>1, <2>2 DEF TransferInit, TransferTypes
<1>3. Writing /\ SinkIsFresh
  BY DEF TransferInit, Writing, SinkIsFresh
<1>4. BytesHaveLanded
  BY DEF TransferInit, BytesHaveLanded
<1> QED
  BY <1>1, <1>2, <1>3, <1>4 DEF TransferInv

-----------------------------------------------------------------------------
(* Steps that write nothing.                                               *)

(* Variables are moved: the sink's number may become stale, nothing else. *)
LEMMA OwnKeeps ==
  ASSUME TransferInv, Own, Owned'
  PROVE  TransferInv'
<1>1. /\ file' = file /\ target' = target /\ writing' = writing /\ size' = size
      /\ total' = total /\ appended' = appended /\ landed' = landed
      /\ short' = short /\ failures' = failures
  BY DEF Own
<1>2. stale' = (stale \/ (file \in Numbers /\ table'[file] # table[file]))
  BY DEF Own
<1>3. TransferTypes' /\ Writing'
  BY <1>1, <1>2 DEF TransferInv, TransferTypes, Writing
<1>4. ~stale' => ~stale
  BY <1>2
<1>5. SinkIsFresh'
  <2> SUFFICES ASSUME target # 0, ~stale' PROVE file \in Numbers /\ table'[file] = <<target, "write">>
    BY <1>1 DEF SinkIsFresh
  <2>1. file \in Numbers /\ table[file] = <<target, "write">>
    BY <1>4 DEF TransferInv, SinkIsFresh
  <2> QED
    BY <1>2, <2>1
<1>6. BytesHaveLanded'
  BY <1>1, <1>4 DEF TransferInv, BytesHaveLanded, Landed
<1> QED
  BY <1>3, <1>5, <1>6 DEF TransferInv

(* A step of the sink leaves the files alone, and whether they are stale. *)
LEMMA MakeSinkKeeps ==
  ASSUME TransferInv, NEW h \in Handles, MakeSink(h)
  PROVE  TransferInv'
<1>1. /\ writing' = writing /\ size' = size /\ total' = total /\ appended' = appended
      /\ landed' = landed /\ short' = short /\ failures' = failures /\ stale' = stale
      /\ table' = table /\ handle' = handle /\ loose' = loose /\ meant' = meant /\ made' = made
  BY DEF MakeSink, files
<1>2. Owned'
  BY <1>1 DEF TransferInv, Owned, TypeOK, OneOwner, MeantIsHeld
<1>3. handle[h] = meant[h] /\ handle[h] \in Numbers
  BY DEF MakeSink, TransferInv, Owned, MeantIsHeld, TypeOK
<1>4. /\ file' = handle[h] /\ target' = table[handle[h]][1]
      /\ table[handle[h]][2] = "write" /\ target = 0
  BY <1>3 DEF MakeSink, FileOf
<1>5. table[handle[h]] \in Ends \cup {Closed}
  BY <1>3 DEF TransferInv, Owned, TypeOK
<1>6. table[handle[h]] \in Ends
  BY <1>4, <1>5 DEF Closed
<1>7. target' \in 1..MaxPipes /\ table[handle[h]] = <<target', "write">>
  BY <1>4, <1>6 DEF Ends
<1>8. TransferTypes'
  BY <1>1, <1>3, <1>4, <1>7, MaxPipesAssumption DEF TransferInv, TransferTypes
<1>9. landed = <<>> /\ appended = 0 /\ ~writing
  BY <1>4 DEF TransferInv, Writing
<1>10. Writing' /\ SinkIsFresh'
  BY <1>1, <1>3, <1>4, <1>7, MaxPipesAssumption DEF TransferInv, Writing, SinkIsFresh
<1>11. BytesHaveLanded'
  <2>1. total = 0
    BY <1>9 DEF TransferInv, Writing
  <2>2. Len(landed') = 0
    BY <1>1, <1>9
  <2> QED
    BY <1>1, <1>9, <2>1, <2>2 DEF BytesHaveLanded, Landed
<1> QED
  BY <1>2, <1>8, <1>10, <1>11 DEF TransferInv

(* The data begin behind what has landed. *)
LEMMA StartAppendKeeps ==
  ASSUME TransferInv, NEW n \in Sizes, StartAppend(n)
  PROVE  TransferInv'
<1>1. /\ file' = file /\ target' = target /\ appended' = appended
      /\ landed' = landed /\ short' = short /\ failures' = failures /\ stale' = stale
      /\ table' = table /\ handle' = handle /\ loose' = loose /\ meant' = meant /\ made' = made
      /\ writing' = TRUE /\ size' = n /\ total' = 0 /\ target # 0 /\ ~writing
  BY DEF StartAppend, files
<1>2. Owned'
  BY <1>1 DEF TransferInv, Owned, TypeOK, OneOwner, MeantIsHeld
<1>3. n \in Nat /\ total = 0
  BY <1>1, SizesAssumption DEF TransferInv, Writing
<1>4. TransferTypes' /\ Writing' /\ SinkIsFresh'
  BY <1>1, <1>3 DEF TransferInv, TransferTypes, Writing, SinkIsFresh
<1>5. BytesHaveLanded'
  BY <1>1, <1>3 DEF TransferInv, BytesHaveLanded, Landed
<1> QED
  BY <1>2, <1>4, <1>5 DEF TransferInv

(* What a failing call has written has landed, and is written again. *)
LEMMA WriteFailsKeeps ==
  ASSUME TransferInv, WriteFails
  PROVE  TransferInv'
<1>1. /\ file' = file /\ target' = target /\ appended' = appended
      /\ landed' = landed /\ short' = short /\ stale' = stale
      /\ table' = table /\ handle' = handle /\ loose' = loose /\ meant' = meant /\ made' = made
      /\ writing' = FALSE /\ size' = 0 /\ total' = 0 /\ failures' = failures + 1 /\ writing
  BY DEF WriteFails, files
<1>2. Owned'
  BY <1>1 DEF TransferInv, Owned, TypeOK, OneOwner, MeantIsHeld
<1>3. appended \in Nat /\ total \in Nat /\ failures \in Nat
  BY DEF TransferInv, TransferTypes
<1>a. total' \in Nat /\ size' \in Nat /\ failures' \in Nat
  BY <1>1, <1>3
<1>b. writing' \in BOOLEAN
  BY <1>1
<1>4. TransferTypes'
  BY <1>1, <1>a, <1>b DEF TransferInv, TransferTypes
<1>c. Writing' /\ SinkIsFresh'
  BY <1>1, <1>3 DEF TransferInv, Writing, SinkIsFresh
<1>5. BytesHaveLanded'
  <2>1. failures' # 0
    BY <1>1, <1>3
  <2>2. \A b \in 1 .. appended' + total' : b \in 1 .. appended + total
    BY <1>1, <1>3
  <2> QED
    BY <1>1, <2>1, <2>2 DEF TransferInv, BytesHaveLanded, Landed
<1> QED
  BY <1>2, <1>4, <1>c, <1>5 DEF TransferInv

(* The end without all of the data makes the history short. *)
LEMMA WriteNothingKeeps ==
  ASSUME TransferInv, WriteNothing
  PROVE  TransferInv'
<1>1. /\ file' = file /\ target' = target /\ appended' = appended + size
      /\ landed' = landed /\ stale' = stale /\ failures' = failures
      /\ table' = table /\ handle' = handle /\ loose' = loose /\ meant' = meant /\ made' = made
      /\ writing' = FALSE /\ size' = 0 /\ total' = 0 /\ writing
      /\ short' = (short \/ total < size)
  BY DEF WriteNothing, Succeed, files
<1>2. Owned'
  BY <1>1 DEF TransferInv, Owned, TypeOK, OneOwner, MeantIsHeld
<1>3. appended \in Nat /\ total \in Nat /\ size \in Nat /\ total <= size
  BY DEF TransferInv, TransferTypes, Writing
<1>a. appended' \in Nat /\ short' \in BOOLEAN
  BY <1>1, <1>3
<1>b. total' \in Nat /\ size' \in Nat
  BY <1>1
<1>c. writing' \in BOOLEAN
  BY <1>1
<1>4. TransferTypes'
  BY <1>1, <1>a, <1>b, <1>c DEF TransferInv, TransferTypes
<1>d. Writing' /\ SinkIsFresh'
  BY <1>1, <1>3 DEF TransferInv, Writing, SinkIsFresh
<1>5. BytesHaveLanded'
  <2>1. CASE short'
    BY <1>1, <2>1 DEF TransferInv, BytesHaveLanded
  <2>2. CASE ~short'
    <3>a. ~short /\ ~(total < size)
      BY <1>1, <2>2
    <3>1. ~short /\ total = size
      BY <1>3, <3>a
    <3>2. appended' + total' = appended + total
      BY <1>1, <1>3, <3>1
    <3> QED
      BY <1>1, <3>1, <3>2 DEF TransferInv, BytesHaveLanded, Landed
  <2> QED
    BY <2>1, <2>2
<1> QED
  BY <1>2, <1>4, <1>d, <1>5 DEF TransferInv

-----------------------------------------------------------------------------
(* Writing.                                                                *)

(* The sequence when n bytes have landed behind those that have before. *)
(* A sequence of two. *)
LEMMA Concatenated ==
  ASSUME NEW S, NEW s \in Seq(S), NEW t \in Seq(S)
  PROVE  s \o t \in Seq(S) /\ Len(s \o t) = Len(s) + Len(t)
OBVIOUS

LEMMA More ==
  ASSUME landed \in Seq((0..MaxPipes) \X Nat), NEW n \in Nat, NEW p \in 0..MaxPipes,
         NEW from \in Nat
  PROVE  LET more == landed \o [i \in 1..n |-> <<p, from + i>>]
         IN  /\ more \in Seq((0..MaxPipes) \X Nat)
             /\ Len(more) = Len(landed) + n
             /\ \A i \in 1..Len(landed) : more[i] = landed[i]
             /\ \A i \in 1..n : more[Len(landed) + i] = <<p, from + i>>
<1> DEFINE new == [i \in 1..n |-> <<p, from + i>>]
<1>1. new \in Seq((0..MaxPipes) \X Nat) /\ Len(new) = n
  OBVIOUS
<1>2. \A i \in 1..n : new[i] = <<p, from + i>>
  OBVIOUS
<1> HIDE DEF new
<1>3. /\ landed \o new \in Seq((0..MaxPipes) \X Nat)
      /\ Len(landed \o new) = Len(landed) + n
  BY <1>1, Concatenated
<1>4. \A i \in 1..Len(landed) : (landed \o new)[i] = landed[i]
  BY <1>1
<1>5. \A i \in 1..n : (landed \o new)[Len(landed) + i] = new[i]
  BY <1>1
<1> QED
  BY <1>2, <1>3, <1>4, <1>5 DEF new

(* What ::write has taken is the next of the data. *)
LEMMA WriteSomeKeeps ==
  ASSUME TransferInv, WriteSome
  PROVE  TransferInv'
<1> DEFINE p == FileOf(file)[1]
<1>1. PICK n \in 1 .. size - total :
        /\ landed' = landed \o [i \in 1..n |-> <<p, appended + total + i>>]
        /\ IF total + n = size THEN Succeed(size)
           ELSE total' = total + n /\ UNCHANGED <<writing, size, appended, short>>
  BY DEF WriteSome
<1>2. /\ file' = file /\ target' = target /\ failures' = failures /\ stale' = stale
      /\ table' = table /\ handle' = handle /\ loose' = loose /\ meant' = meant /\ made' = made
      /\ writing /\ FileOf(file)[2] = "write"
  BY DEF WriteSome, files
<1>3. /\ appended \in Nat /\ total \in Nat /\ size \in Nat /\ total <= size
      /\ landed \in Seq((0..MaxPipes) \X Nat) /\ short \in BOOLEAN
      /\ target # 0 /\ target \in 0..MaxPipes
  BY <1>2 DEF TransferInv, TransferTypes, Writing
<1>4. n \in Nat /\ n >= 1 /\ total + n <= size
  BY <1>3
<1>5. Owned'
  BY <1>2 DEF TransferInv, Owned, TypeOK, OneOwner, MeantIsHeld
<1>6. p \in 0..MaxPipes
  <2>1. FileOf(file) \in Ends \cup {Closed}
    BY Values DEF FileOf, TransferInv, Owned, TypeOK
  <2> QED
    BY <2>1, MaxPipesAssumption DEF Ends, Closed
<1>7. ~stale => p = target
  BY <1>3 DEF TransferInv, SinkIsFresh, FileOf
<1> HIDE DEF p
<1>8. /\ landed' \in Seq((0..MaxPipes) \X Nat)
      /\ Len(landed') = Len(landed) + n
      /\ \A i \in 1..Len(landed) : landed'[i] = landed[i]
      /\ \A i \in 1..n : landed'[Len(landed) + i] = <<p, appended + total + i>>
  BY <1>1, <1>3, <1>4, <1>6, More
<1>9. /\ short' \in BOOLEAN /\ writing' \in BOOLEAN
      /\ appended' \in Nat /\ total' \in Nat /\ size' \in Nat
      /\ appended' + total' = appended + total + n
      /\ total' <= size' /\ (~writing' => size' = 0 /\ total' = 0)
      /\ short' <=> short
  <2>1. CASE total + n = size
    <3>1. /\ appended' = appended + size /\ writing' = FALSE /\ size' = 0 /\ total' = 0
          /\ short' = (short \/ size < size)
      BY <1>1, <2>1 DEF Succeed
    <3>2. /\ appended' \in Nat /\ total' \in Nat /\ size' \in Nat
          /\ appended' + total' = appended + total + n
          /\ total' <= size'
      BY <1>3, <1>4, <2>1, <3>1
    <3>3. ~(size < size)
      BY <1>3
    <3>4. short' = short
      BY <1>3, <3>1, <3>3
    <3>5. short' \in BOOLEAN /\ writing' \in BOOLEAN
      BY <1>3, <3>1, <3>4
    <3> QED
      BY <3>1, <3>2, <3>4, <3>5
  <2>2. CASE total + n # size
    <3>1. total' = total + n /\ writing' = writing /\ size' = size
          /\ appended' = appended /\ short' = short
      BY <1>1, <2>2
    <3> QED
      BY <1>2, <1>3, <1>4, <3>1
  <2> QED
    BY <2>1, <2>2
<1>10. TransferTypes'
  BY <1>2, <1>8, <1>9 DEF TransferInv, TransferTypes
<1>11. Writing' /\ SinkIsFresh'
  BY <1>2, <1>3, <1>9 DEF TransferInv, Writing, SinkIsFresh
<1>12. BytesHaveLanded'
  <2> SUFFICES ASSUME ~stale PROVE
        /\ \A i \in 1..Len(landed') : landed'[i][1] = target
        /\ short \/ \A i \in 1..Len(landed') :
             \A b \in 1 .. landed'[i][2] - 1 : \E j \in 1 .. i - 1 : landed'[j][2] = b
        /\ short \/ \A b \in 1 .. appended' + total' : Landed(b)'
        /\ failures = 0 /\ ~short => Len(landed') = appended' + total'
    BY <1>2, <1>9 DEF BytesHaveLanded
  <2>0. Len(landed) \in Nat
    BY <1>3
  <2>a. \A i \in 1..Len(landed') :
          i \in 1..Len(landed) \/ \E k \in 1..n : i = Len(landed) + k
    <3> TAKE i \in 1..Len(landed')
    <3>1. CASE i <= Len(landed)
      BY <2>0, <3>1
    <3>2. CASE ~(i <= Len(landed))
      <4>1. i - Len(landed) \in 1..n /\ i = Len(landed) + (i - Len(landed))
        BY <1>4, <1>8, <2>0, <3>2
      <4> QED
        BY <4>1
    <3> QED
      BY <3>1, <3>2
  <2>1. \A i \in 1..Len(landed') : landed'[i][1] = target
    <3> TAKE i \in 1..Len(landed')
    <3>1. CASE i \in 1..Len(landed)
      BY <1>8, <3>1 DEF TransferInv, BytesHaveLanded
    <3>2. ASSUME NEW k \in 1..n, i = Len(landed) + k PROVE landed'[i][1] = target
      <4>1. landed'[i] = <<p, appended + total + k>>
        BY <1>8, <3>2
      <4> QED
        BY <1>7, <4>1
    <3> QED
      BY <2>a, <3>1, <3>2
  <2>b. ASSUME ~short, NEW b \in 1 .. appended + total
        PROVE  \E j \in 1..Len(landed) : landed'[j][2] = b
    <3>1. PICK j \in 1..Len(landed) : landed[j][2] = b
      BY <2>b DEF TransferInv, BytesHaveLanded, Landed
    <3> QED
      BY <1>8, <3>1
  <2>c. \A k \in 1..n : landed'[Len(landed) + k][2] = appended + total + k
    BY <1>8
  <2>2. ASSUME ~short, NEW i \in 1..Len(landed'), NEW b \in 1 .. landed'[i][2] - 1
        PROVE  \E j \in 1 .. i - 1 : landed'[j][2] = b
    <3>1. CASE i \in 1..Len(landed)
      <4>1. landed'[i] = landed[i]
        BY <1>8, <3>1
      <4>2. PICK j \in 1 .. i - 1 : landed[j][2] = b
        BY <2>2, <3>1, <4>1 DEF TransferInv, BytesHaveLanded
      <4>3. j \in 1..Len(landed)
        BY <2>0, <3>1
      <4> QED
        BY <1>8, <4>2, <4>3
    <3>2. ASSUME NEW k \in 1..n, i = Len(landed) + k
          PROVE  \E j \in 1 .. i - 1 : landed'[j][2] = b
      <4>1. landed'[i][2] = appended + total + k
        BY <1>8, <3>2
      <4>2. CASE b <= appended + total
        <5>1. b \in 1 .. appended + total
          BY <1>3, <4>1, <4>2
        <5>2. PICK j \in 1..Len(landed) : landed'[j][2] = b
          BY <2>2, <2>b, <5>1
        <5>3. j \in 1 .. i - 1
          BY <1>4, <2>0, <3>2
        <5> QED
          BY <5>2, <5>3
      <4>3. CASE ~(b <= appended + total)
        <5>1. /\ b - (appended + total) \in 1..n
              /\ b - (appended + total) < k
              /\ appended + total + (b - (appended + total)) = b
          BY <1>3, <1>4, <4>1, <4>3
        <5>2. Len(landed) + (b - (appended + total)) \in 1 .. i - 1
          BY <1>3, <1>4, <2>0, <3>2, <5>1
        <5>3. landed'[Len(landed) + (b - (appended + total))][2]
                = appended + total + (b - (appended + total))
          BY <2>c, <5>1
        <5> QED
          BY <5>1, <5>2, <5>3
      <4> QED
        BY <4>2, <4>3
    <3> QED
      BY <2>a, <3>1, <3>2
  <2>d. appended' + total' = appended + total + n
    BY <1>9
  <2>3. ASSUME ~short, NEW b \in 1 .. appended' + total' PROVE Landed(b)'
    <3>1. CASE b <= appended + total
      <4>1. b \in 1 .. appended + total
        BY <1>3, <1>9, <3>1
      <4>2. PICK j \in 1..Len(landed) : landed'[j][2] = b
        BY <2>3, <2>b, <4>1
      <4>3. j \in 1..Len(landed')
        BY <1>4, <1>8, <2>0
      <4> QED
        BY <4>2, <4>3 DEF Landed
    <3>2. CASE ~(b <= appended + total)
      <4>0. b \in Nat /\ b <= appended + total + n
        BY <1>3, <1>4, <2>d
      <4>1. /\ b - (appended + total) \in 1..n
            /\ appended + total + (b - (appended + total)) = b
        BY <1>3, <1>4, <3>2, <4>0
      <4>2. Len(landed) + (b - (appended + total)) \in 1..Len(landed')
        BY <1>3, <1>4, <1>8, <2>0, <4>1
      <4>3. landed'[Len(landed) + (b - (appended + total))][2] = b
        BY <2>c, <4>1
      <4> QED
        BY <4>2, <4>3 DEF Landed
    <3> QED
      BY <3>1, <3>2
  <2>4. failures = 0 /\ ~short => Len(landed') = appended' + total'
    BY <1>3, <1>4, <1>8, <1>9 DEF TransferInv, BytesHaveLanded
  <2> QED
    BY <2>1, <2>2, <2>3, <2>4
<1> QED
  BY <1>5, <1>10, <1>11, <1>12 DEF TransferInv

-----------------------------------------------------------------------------

(* The reader is no concern of the sink's. *)
LEMMA ReaderKeeps ==
  ASSUME TransferInv, UNCHANGED <<files, sink>>
  PROVE  TransferInv'
<1>1. /\ file' = file /\ target' = target /\ writing' = writing /\ size' = size
      /\ total' = total /\ appended' = appended /\ landed' = landed
      /\ short' = short /\ failures' = failures /\ stale' = stale
      /\ table' = table /\ handle' = handle /\ loose' = loose /\ meant' = meant /\ made' = made
  BY DEF sink, files
<1> QED
  BY <1>1 DEF TransferInv, Owned, TypeOK, OneOwner, MeantIsHeld, TransferTypes, Writing,
              SinkIsFresh, BytesHaveLanded, Landed

(* Every step keeps the invariant. *)
LEMMA StepKeepsTransferInv ==
  ASSUME TransferInv, [TransferNext]_vars
  PROVE  TransferInv'
<1>1. CASE Own
  BY <1>1, OwnKeeps, StepKeepsOwned DEF Own, TransferInv
<1>2. ASSUME NEW h \in Handles, MakeSink(h) PROVE TransferInv'
  BY <1>2, MakeSinkKeeps
<1>3. ASSUME NEW h \in Handles, StartReading(h) PROVE TransferInv'
  BY <1>3, ReaderKeeps DEF StartReading
<1>4. ASSUME NEW n \in Sizes, StartAppend(n) PROVE TransferInv'
  BY <1>4, StartAppendKeeps
<1>5. CASE Write
  BY <1>5, WriteSomeKeeps, WriteNothingKeeps, WriteFailsKeeps DEF Write
<1>6. CASE Read
  BY <1>6, ReaderKeeps DEF Read, ReadSome, ReadEnd, sink
<1>7. CASE UNCHANGED vars
  BY <1>7, ReaderKeeps DEF vars
<1> QED
  BY <1>1, <1>2, <1>3, <1>4, <1>5, <1>6, <1>7 DEF TransferNext

(***************************************************************************)
(* However much ::write takes at a time, and however often it fails: as    *)
(* long as the sink's descriptor stays open, what append() has reported as *)
(* a success is in the pipe the sink was made for, in order, and once      *)
(* unless a call has failed, except when a pipe does not make its writers  *)
(* wait.                                                                   *)
(***************************************************************************)
THEOREM AppendedCorrect == TransferSpec => []AppendedHasLanded
<1>1. TransferInv /\ [TransferNext]_vars => TransferInv'
  BY StepKeepsTransferInv
<1> QED
  BY InitTransferInv, InvImplies, <1>1, PTL DEF TransferSpec

=============================================================================
