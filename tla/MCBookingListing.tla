---------------------------- MODULE MCBookingListing ----------------------------
(***************************************************************************)
(* Ints of four bits.  A page holds two bookings by default and at most    *)
(* four, so that (page - 1) * pageSize wraps to a negative offset for page *)
(* 7 of size 2.  Of three bookings one has a client who remembers what it    *)
(* was told.  Followed bookings are symmetric, and so are the others.      *)
(***************************************************************************)
EXTENDS BookingListing, TLC

Symmetry == Permutations(BookingIDs \ Followed) \cup Permutations(Followed)
            \cup Permutations(Users \ Admins)

=============================================================================
