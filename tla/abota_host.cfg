SPECIFICATION HostSpec
CONSTANTS
  a0 = a0  b0 = b0  a1 = a1  b1 = b1  big = big
  Image  <- MCImage
  Linked <- MCLinked
  TooBig <- MCTooBig
  Faults = FALSE
  None = None
INVARIANTS BootIntact IInv
 
