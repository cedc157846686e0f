\* The same map: does Reserve reserve?
CONSTANTS
  Limit = 5
  Capacity = 3
  PageSize = 2
SPECIFICATION Spec
PROPERTIES
  ReserveReserves
