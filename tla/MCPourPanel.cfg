\* Two meters, of three readings and of one.
SPECIFICATION Spec
CONSTANTS
  m1 = m1
  m2 = m2
  Meters = {m1, m2}
  MaxReading <- MCMaxReading
  Rates <- MCRates
INVARIANTS
  CardsInStep
  CardShowsItsPour
PROPERTIES
  ImplementsPourCards
  CardsGo
  CarouselKeepsTurning
