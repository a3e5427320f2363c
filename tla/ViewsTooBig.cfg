SPECIFICATION Spec
CONSTANTS
  Functions <- Program
  Place <- Code
  Named <- Known
  symtab <- Table
  MaxFrames = 2
  Unset <- Leftover
  Objects = {"main", "lib", "libc"}
  Sources = {"main.c", "lib.c"}
  TooBig = {"libc"}
  Undumpable = {}
  Unopenable = {"lib.c"}
  Listing <- Listings
  Lines <- Sourced
  Radix = 4
  Stacks <- Deep
  Entry <- Start
INVARIANT
  FileIsShown
