\* The count entropy_get_bits reports, after a full bar is swept on.
SPECIFICATION Spec
CONSTANTS
  Owner = owner
  Net = {n1}
  Nobody = Nobody
  Units = 2
  Full = 4
  Payments = {3}
  MaxUnits = 6
  MaxForgets = 1
INVARIANT BitsInRange
